---- MODULE Spec2Model ----
(***************************************************************************)
(* Multi-species cellular automaton on a toroidal grid: GridModel,         *)
(* SimulationEngine, RuleParameters and the Application operations that    *)
(* mutate the grid.                                                        *)
(*                                                                         *)
(* Conventions                                                             *)
(*  - a typed array of length n is a function with domain 0..n-1;          *)
(*  - the effective pressures SA = A + 0.5*Y*A and SB = B + 0.5*Y*B are    *)
(*    kept in half units (SA2 = 2*A + Y*A), a threshold t is compared as   *)
(*    2*t, so every comparison of the source is exact on integers;         *)
(*  - density and gdensity are kept in percent (the source divides the     *)
(*    slider's percent by 100 and compares with Math.random()).            *)
(***************************************************************************)
EXTENDS Integers, Sequences, FiniteSets, TLC

VARIABLES gridModel, ruleParams, ops, twin, pass, probe, buffers

vars == <<gridModel, ruleParams, ops, twin, pass, probe, buffers>>

----------------------------------------------------------------------------
(* Bounds of the model *)

MaxCells == 4
MaxOps == 4
MaxEdits == 2
MaxCount == 2
MaxAge == 2
MaxSide == 3
MaxValue == 9

----------------------------------------------------------------------------
(* STATE enum *)

EMPTY == 0
SPECIES_A == 1
SPECIES_B == 2
DISEASED == 3
CONTESTED == 4

States == {EMPTY, SPECIES_A, SPECIES_B, DISEASED, CONTESTED}

SPECIES_ACTIVE == {SPECIES_A, SPECIES_B, CONTESTED}

Uint8Modulus == 256

(* A store into a Uint8Array keeps the low 8 bits. *)
(* A counter of half the width, which wraps at 128. *)
ToUint7(v) == v % (Uint8Modulus \div 2)

ToUint8(v) == v % Uint8Modulus

None == [none |-> TRUE]

----------------------------------------------------------------------------
(* GridModel *)

Indices(size) == 0 .. (size - 1)

Zeros(size) == [i \in Indices(size) |-> 0]

InitializeGrids(columns, rows) ==
    LET size == columns * rows
    IN  [columns |-> columns, rows |-> rows,
         grid |-> Zeros(size), next |-> Zeros(size),
         gAge |-> Zeros(size), yAge |-> Zeros(size)]

NewGridModel(columns, rows) == InitializeGrids(columns, rows)

Idx(gm, x, y) == y * gm.columns + x

(* JavaScript's % truncates toward zero: the sign follows the dividend. *)
JsRem(x, n) == IF x >= 0 THEN x % n ELSE -((-x) % n)


(* A wrap that pins a coordinate to the nearest edge instead of wrapping. *)
WrapClamp(x, n) == IF x < 0 THEN 0 ELSE IF x >= n THEN n - 1 ELSE x

(* wrap without the correction of a negative remainder. *)
WrapNoFix(x, n) == JsRem(x, n)

Wrap(x, n) ==
    LET r == JsRem(x, n)
    IN  IF r < 0 THEN r + n ELSE r

Min(a, b) == IF a <= b THEN a ELSE b

Max(a, b) == IF a >= b THEN a ELSE b


(* setCell that resets both ages whatever the value written. *)
SetCellResetsAges(gm, column, row, value) ==
    LET index == Idx(gm, column, row)
    IN  [gm EXCEPT !.grid[index] = value, !.gAge[index] = 0, !.yAge[index] = 0]

SetCell(gm, column, row, value) ==
    LET index == Idx(gm, column, row)
    IN  [gm EXCEPT !.grid[index] = value,
                   !.gAge[index] = IF value # DISEASED THEN 0 ELSE @,
                   !.yAge[index] = IF value # CONTESTED THEN 0 ELSE @]

(* What reading a typed array outside its length yields, undefined: a      *)
(* value that no cell holds.                                               *)
Undefined == -1

GetCell(gm, column, row) ==
    LET index == Idx(gm, column, row)
    IN  IF index \in DOMAIN gm.grid THEN gm.grid[index] ELSE Undefined

(* fill(0) keeps each array's length. *)
Fill(array, value) == [i \in DOMAIN array |-> value]


(* clear that leaves the disease ages as they are. *)
ClearKeepsDiseaseAge(gm) ==
    [gm EXCEPT !.grid = Fill(@, 0), !.yAge = Fill(@, 0)]

Clear(gm) ==
    [gm EXCEPT !.grid = Fill(@, 0), !.gAge = Fill(@, 0), !.yAge = Fill(@, 0)]


(* resize that carries the disease ages of the kept cells over as well. *)
ResizeKeepsAges(gm, newColumns, newRows, keepContent) ==
    LET fresh == InitializeGrids(newColumns, newRows)
        minColumns == Min(newColumns, gm.columns)
        minRows == Min(newRows, gm.rows)
        size == newColumns * newRows
        kept(old) ==
            [i \in Indices(size) |->
                LET column == i % newColumns
                    row == i \div newColumns
                IN  IF row < minRows /\ column < minColumns
                    THEN old[row * gm.columns + column]
                    ELSE 0]
    IN  IF keepContent /\ DOMAIN gm.grid # {} /\ minRows > 0 /\ minColumns > 0
        THEN [fresh EXCEPT !.grid = kept(gm.grid), !.gAge = kept(gm.gAge)]
        ELSE fresh

Resize(gm, newColumns, newRows, keepContent) ==
    LET fresh == InitializeGrids(newColumns, newRows)
        minColumns == Min(newColumns, gm.columns)
        minRows == Min(newRows, gm.rows)
        size == newColumns * newRows
    IN  IF keepContent /\ DOMAIN gm.grid # {} /\ minRows > 0 /\ minColumns > 0
        THEN [fresh EXCEPT !.grid =
                 [i \in Indices(size) |->
                     LET column == i % newColumns
                         row == i \div newColumns
                     IN  IF row < minRows /\ column < minColumns
                         THEN gm.grid[row * gm.columns + column]
                         ELSE 0]]
        ELSE fresh


(* A scan that skips the wrong position: the centre is read, (1, 0) is not. *)
OffsetsWithCentre ==
    << <<-1, -1>>, <<0, -1>>, <<1, -1>>,
       <<-1, 0>>,  <<0, 0>>,
       <<-1, 1>>,  <<0, 1>>,  <<1, 1>> >>

(* The 8 offsets of the Moore neighbourhood, in the order of the two loops. *)
Offsets ==
    << <<-1, -1>>, <<0, -1>>, <<1, -1>>,
       <<-1, 0>>,             <<1, 0>>,
       <<-1, 1>>,  <<0, 1>>,  <<1, 1>> >>


(* A neighbour lookup that reads the buffer being written. *)
NeighborStateFromNext(gm, x, y, k) ==
    LET nx == Wrap(x + Offsets[k][1], gm.columns)
        ny == Wrap(y + Offsets[k][2], gm.rows)
    IN  gm.next[Idx(gm, nx, ny)]

NeighborState(gm, x, y, k) ==
    LET nx == Wrap(x + Offsets[k][1], gm.columns)
        ny == Wrap(y + Offsets[k][2], gm.rows)
    IN  gm.grid[Idx(gm, nx, ny)]

(* The cells read by the scan of getNeighborCounts(x, y), in scan order. *)
ScannedCells(gm, x, y) ==
    [k \in 1 .. Len(Offsets) |->
        <<Wrap(x + Offsets[k][1], gm.columns), Wrap(y + Offsets[k][2], gm.rows)>>]

CountOf(gm, x, y, state) ==
    Cardinality({k \in 1 .. Len(Offsets) : NeighborState(gm, x, y, k) = state})

GetNeighborCounts(gm, x, y) ==
    [A |-> CountOf(gm, x, y, SPECIES_A),
     B |-> CountOf(gm, x, y, SPECIES_B),
     G |-> CountOf(gm, x, y, DISEASED),
     Y |-> CountOf(gm, x, y, CONTESTED)]

----------------------------------------------------------------------------
(* SimulationEngine *)

IsWeakCell(state, neighbors) ==
    IF state = SPECIES_A THEN neighbors.A <= 1
    ELSE IF state = SPECIES_B THEN neighbors.B <= 1
    ELSE IF state = CONTESTED THEN Min(neighbors.A, neighbors.B) <= 1
    ELSE FALSE


(* checkInfection without the iweak > 0 guard of the weak infection. *)
CheckInfectionNoGuard(state, neighbors, params) ==
    IF state \notin SPECIES_ACTIVE
    THEN FALSE
    ELSE neighbors.G >= params.istr
         \/ (neighbors.G >= params.iweak /\ IsWeakCell(state, neighbors))

(* checkInfection without the immunity of Empty and Diseased cells. *)
CheckInfectionAnyState(state, neighbors, params) ==
    LET isWeak == IsWeakCell(state, neighbors)
        strongInfection == neighbors.G >= params.istr
        weakInfection == params.iweak > 0 /\ neighbors.G >= params.iweak /\ isWeak
    IN  strongInfection \/ weakInfection

CheckInfection(state, neighbors, params) ==
    IF state \notin SPECIES_ACTIVE
    THEN FALSE
    ELSE LET isWeak == IsWeakCell(state, neighbors)
             strongInfection == neighbors.G >= params.istr
             weakInfection == params.iweak > 0 /\ neighbors.G >= params.iweak /\ isWeak
         IN  strongInfection \/ weakInfection


(* ageDiseasedCell that forgets to reset the age of a cleared cell. *)
AgeDiseasedCellKeepsAge(gm, index, params) ==
    LET isStale == gm.gAge[index] >= params.tau
    IN  [gm EXCEPT !.next[index] = IF isStale THEN EMPTY ELSE DISEASED,
                   !.gAge[index] = IF isStale THEN @ ELSE ToUint8(@ + 1)]

(* The earlier variant of the handler, which clears one generation sooner. *)
AgeDiseasedCellEarly(gm, index, params) ==
    IF gm.gAge[index] + 1 >= params.tau
    THEN [gm EXCEPT !.next[index] = EMPTY, !.gAge[index] = 0]
    ELSE [gm EXCEPT !.next[index] = DISEASED, !.gAge[index] = ToUint8(@ + 1)]

(* ageDiseasedCell with a strict comparison, which clears one generation   *)
(* later.                                                                  *)
AgeDiseasedCellLate(gm, index, params) ==
    LET isStale == gm.gAge[index] > params.tau
    IN  [gm EXCEPT !.next[index] = IF isStale THEN EMPTY ELSE DISEASED,
                   !.gAge[index] = IF isStale THEN 0 ELSE ToUint8(@ + 1)]

AgeDiseasedCell(gm, index, params) ==
    LET isStale == gm.gAge[index] >= params.tau
    IN  [gm EXCEPT !.next[index] = IF isStale THEN EMPTY ELSE DISEASED,
                   !.gAge[index] = IF isStale THEN 0 ELSE ToUint8(@ + 1)]


(* handleContestedCell that decays only once the age has reached ydec. *)
HandleContestedCellLate(gm, index, neighbors, SA, SB, params) ==
    IF SA >= 2 * params.cmin /\ SA - SB >= 2 * params.marg
    THEN [gm EXCEPT !.next[index] = SPECIES_A]
    ELSE IF SB >= 2 * params.cmin /\ SB - SA >= 2 * params.marg
    THEN [gm EXCEPT !.next[index] = SPECIES_B]
    ELSE IF neighbors.A + neighbors.B < 2 \/ gm.yAge[index] >= params.ydec
    THEN [gm EXCEPT !.next[index] = EMPTY, !.yAge[index] = 0]
    ELSE [gm EXCEPT !.next[index] = CONTESTED, !.yAge[index] = ToUint8(@ + 1)]

(* handleContestedCell without the isolation test A + B < 2. *)
HandleContestedCellNoIsolation(gm, index, neighbors, SA, SB, params) ==
    IF SA >= 2 * params.cmin /\ SA - SB >= 2 * params.marg
    THEN [gm EXCEPT !.next[index] = SPECIES_A]
    ELSE IF SB >= 2 * params.cmin /\ SB - SA >= 2 * params.marg
    THEN [gm EXCEPT !.next[index] = SPECIES_B]
    ELSE IF gm.yAge[index] + 1 >= params.ydec
    THEN [gm EXCEPT !.next[index] = EMPTY, !.yAge[index] = 0]
    ELSE [gm EXCEPT !.next[index] = CONTESTED, !.yAge[index] = ToUint8(@ + 1)]

(* handleContestedCell that keeps a cell Contested without counting the    *)
(* generation.                                                             *)
HandleContestedCellNoCount(gm, index, neighbors, SA, SB, params) ==
    IF SA >= 2 * params.cmin /\ SA - SB >= 2 * params.marg
    THEN [gm EXCEPT !.next[index] = SPECIES_A]
    ELSE IF SB >= 2 * params.cmin /\ SB - SA >= 2 * params.marg
    THEN [gm EXCEPT !.next[index] = SPECIES_B]
    ELSE IF neighbors.A + neighbors.B < 2 \/ gm.yAge[index] + 1 >= params.ydec
    THEN [gm EXCEPT !.next[index] = EMPTY, !.yAge[index] = 0]
    ELSE [gm EXCEPT !.next[index] = CONTESTED]

(* SA and SB are in half units here and below. *)
HandleContestedCell(gm, index, neighbors, SA, SB, params) ==
    IF SA >= 2 * params.cmin /\ SA - SB >= 2 * params.marg
    THEN [gm EXCEPT !.next[index] = SPECIES_A]
    ELSE IF SB >= 2 * params.cmin /\ SB - SA >= 2 * params.marg
    THEN [gm EXCEPT !.next[index] = SPECIES_B]
    ELSE IF neighbors.A + neighbors.B < 2 \/ gm.yAge[index] + 1 >= params.ydec
    THEN [gm EXCEPT !.next[index] = EMPTY, !.yAge[index] = 0]
    ELSE [gm EXCEPT !.next[index] = CONTESTED, !.yAge[index] = ToUint8(@ + 1)]


(* handleEmptyCell with a strict comparison against the birth threshold. *)
HandleEmptyCellStrict(gm, index, SA, SB, params) ==
    IF SA > 2 * params.birth /\ SB > 2 * params.birth
    THEN [gm EXCEPT !.next[index] = CONTESTED, !.yAge[index] = 0]
    ELSE IF SA > 2 * params.birth /\ SB <= 2 * params.birth
    THEN [gm EXCEPT !.next[index] = SPECIES_A]
    ELSE IF SB > 2 * params.birth /\ SA <= 2 * params.birth
    THEN [gm EXCEPT !.next[index] = SPECIES_B]
    ELSE [gm EXCEPT !.next[index] = EMPTY]


(* handleEmptyCell that writes nothing for a cell that stays empty. *)
HandleEmptyCellNoWrite(gm, index, SA, SB, params) ==
    IF SA >= 2 * params.birth /\ SB >= 2 * params.birth
    THEN [gm EXCEPT !.next[index] = CONTESTED, !.yAge[index] = 0]
    ELSE IF SA >= 2 * params.birth /\ SB < 2 * params.birth
    THEN [gm EXCEPT !.next[index] = SPECIES_A]
    ELSE IF SB >= 2 * params.birth /\ SA < 2 * params.birth
    THEN [gm EXCEPT !.next[index] = SPECIES_B]
    ELSE gm

(* handleEmptyCell whose birth threshold is one too low. *)
HandleEmptyCellOffByOne(gm, index, SA, SB, params) ==
    LET threshold == 2 * (params.birth - 1)
    IN  IF SA >= threshold /\ SB >= threshold
        THEN [gm EXCEPT !.next[index] = CONTESTED, !.yAge[index] = 0]
        ELSE IF SA >= threshold /\ SB < threshold
        THEN [gm EXCEPT !.next[index] = SPECIES_A]
        ELSE IF SB >= threshold /\ SA < threshold
        THEN [gm EXCEPT !.next[index] = SPECIES_B]
        ELSE [gm EXCEPT !.next[index] = EMPTY]

(* handleEmptyCell that gives the cell to SpeciesA when both species reach *)
(* the birth threshold.                                                    *)
HandleEmptyCellFavoursA(gm, index, SA, SB, params) ==
    IF SA >= 2 * params.birth
    THEN [gm EXCEPT !.next[index] = SPECIES_A]
    ELSE IF SB >= 2 * params.birth
    THEN [gm EXCEPT !.next[index] = SPECIES_B]
    ELSE [gm EXCEPT !.next[index] = EMPTY]

HandleEmptyCell(gm, index, SA, SB, params) ==
    IF SA >= 2 * params.birth /\ SB >= 2 * params.birth
    THEN [gm EXCEPT !.next[index] = CONTESTED, !.yAge[index] = 0]
    ELSE IF SA >= 2 * params.birth /\ SB < 2 * params.birth
    THEN [gm EXCEPT !.next[index] = SPECIES_A]
    ELSE IF SB >= 2 * params.birth /\ SA < 2 * params.birth
    THEN [gm EXCEPT !.next[index] = SPECIES_B]
    ELSE [gm EXCEPT !.next[index] = EMPTY]


(* handleSpeciesCell in which survival pre-empts the contest. *)
HandleSpeciesCellSurvivalFirst(gm, index, state, neighbors, SA, SB, params) ==
    LET isSpeciesA == state = SPECIES_A
        nSame == IF isSpeciesA THEN neighbors.A ELSE neighbors.B
        nOpp == IF isSpeciesA THEN neighbors.B ELSE neighbors.A
        Ssame == IF isSpeciesA THEN SA ELSE SB
        Sopp == IF isSpeciesA THEN SB ELSE SA
        survives == (nSame >= params.smin /\ nSame <= params.smax)
                    /\ nSame < params.over /\ nOpp < params.over
        contested == Sopp >= 2 * params.cmin /\ Sopp - Ssame >= 2 * params.marg
    IN  IF survives
        THEN [gm EXCEPT !.next[index] = state]
        ELSE IF contested
        THEN [gm EXCEPT !.next[index] = CONTESTED, !.yAge[index] = 0]
        ELSE [gm EXCEPT !.next[index] = EMPTY]

HandleSpeciesCell(gm, index, state, neighbors, SA, SB, params) ==
    LET isSpeciesA == state = SPECIES_A
        nSame == IF isSpeciesA THEN neighbors.A ELSE neighbors.B
        nOpp == IF isSpeciesA THEN neighbors.B ELSE neighbors.A
        Ssame == IF isSpeciesA THEN SA ELSE SB
        Sopp == IF isSpeciesA THEN SB ELSE SA
        survives == (nSame >= params.smin /\ nSame <= params.smax)
                    /\ nSame < params.over /\ nOpp < params.over
        contested == Sopp >= 2 * params.cmin /\ Sopp - Ssame >= 2 * params.marg
    IN  IF contested
        THEN [gm EXCEPT !.next[index] = CONTESTED, !.yAge[index] = 0]
        ELSE IF survives
        THEN [gm EXCEPT !.next[index] = state]
        ELSE [gm EXCEPT !.next[index] = EMPTY]

(* The states for which updateCell runs its last branch, next = EMPTY: a   *)
(* state that checkInfection does not handle and no case matches.          *)
ReachesFallback(state) ==
    /\ state \notin SPECIES_ACTIVE
    /\ state # DISEASED
    /\ state # EMPTY
    /\ state # SPECIES_A /\ state # SPECIES_B
    /\ state # CONTESTED

(* The flat pressure of the legacy script: count + 0.5 * Y, doubled. *)
EffectivePressureFlat2(count, contested) == 2 * count + contested

(* Twice the effective pressure count + 0.5 * Y * count of a species with  *)
(* count neighbours beside contested Contested neighbours; doubled so that *)
(* it stays an integer, the thresholds it is compared with are doubled too. *)
EffectivePressure2(count, contested) == 2 * count + contested * count

(* updateCell that reads the cell's state from the next buffer. *)
UpdateCellWithFromNext(gm, index, neighbors, params) ==
    LET state == gm.next[index]
        SA == EffectivePressure2(neighbors.A, neighbors.Y)
        SB == EffectivePressure2(neighbors.B, neighbors.Y)
    IN  IF CheckInfection(state, neighbors, params)
        THEN [gm EXCEPT !.next[index] = DISEASED, !.gAge[index] = 0]
        ELSE IF state = DISEASED
        THEN AgeDiseasedCell(gm, index, params)
        ELSE IF state = EMPTY
        THEN HandleEmptyCell(gm, index, SA, SB, params)
        ELSE IF state = SPECIES_A \/ state = SPECIES_B
        THEN HandleSpeciesCell(gm, index, state, neighbors, SA, SB, params)
        ELSE IF state = CONTESTED
        THEN HandleContestedCell(gm, index, neighbors, SA, SB, params)
        ELSE [gm EXCEPT !.next[index] = EMPTY]

(* updateCell after the neighbour counts have been taken. *)
UpdateCellWith(gm, index, neighbors, params) ==
    LET state == gm.grid[index]
        SA == EffectivePressure2(neighbors.A, neighbors.Y)
        SB == EffectivePressure2(neighbors.B, neighbors.Y)
    IN  IF CheckInfection(state, neighbors, params)
        THEN [gm EXCEPT !.next[index] = DISEASED, !.gAge[index] = 0]
        ELSE IF state = DISEASED
        THEN AgeDiseasedCell(gm, index, params)
        ELSE IF state = EMPTY
        THEN HandleEmptyCell(gm, index, SA, SB, params)
        ELSE IF state = SPECIES_A \/ state = SPECIES_B
        THEN HandleSpeciesCell(gm, index, state, neighbors, SA, SB, params)
        ELSE IF state = CONTESTED
        THEN HandleContestedCell(gm, index, neighbors, SA, SB, params)
        ELSE [gm EXCEPT !.next[index] = EMPTY]

UpdateCell(gm, column, row, params) ==
    UpdateCellWith(gm, Idx(gm, column, row), GetNeighborCounts(gm, column, row), params)


(* A swap that copies the new generation into grid and leaves next alone. *)
SwapBuffersCopy(gm) == [gm EXCEPT !.grid = gm.next]

SwapBuffers(gm) == [gm EXCEPT !.grid = gm.next, !.next = gm.grid]

(* initializeGrids() allocates the array behind grid, then the one behind  *)
(* next; the arrays they replace are unreachable, so the names are reused. *)
FreshBuffers == [grid |-> "first", next |-> "second"]

(* const temp = grid.grid; grid.grid = grid.next; grid.next = temp *)
SwapHandles(b) == [grid |-> b.next, next |-> b.grid]

(* The two nested loops of step(): rows outside, columns inside, which is  *)
(* index order; i is the index of the next cell to update.                 *)
RECURSIVE StepLoop(_, _, _)
StepLoop(gm, params, i) ==
    IF gm.rows <= 0 \/ gm.columns <= 0 \/ i >= gm.columns * gm.rows
    THEN gm
    ELSE StepLoop(UpdateCell(gm, i % gm.columns, i \div gm.columns, params), params, i + 1)

StepModel(gm, params) == SwapBuffers(StepLoop(gm, params, 0))

----------------------------------------------------------------------------
(* RuleParameters and Application.randomize *)

ParamChoices ==
    { [birth |-> 3, smin |-> 2, smax |-> 3, over |-> 5, cmin |-> 2, marg |-> 5,
       istr |-> 2, iweak |-> 1, tau |-> 1, ydec |-> 3, density |-> 100, gdensity |-> 0],
      [birth |-> 2, smin |-> 0, smax |-> 4, over |-> 7, cmin |-> 2, marg |-> 1,
       istr |-> 4, iweak |-> 0, tau |-> 0, ydec |-> 2, density |-> 50, gdensity |-> 100] }

(* Values of 100 * Math.random(), which lies in [0, 100). *)
RandomDraws == {0, 50, 99}

(* The body of the loop of randomize() for one cell that clear() left EMPTY. *)
RandomCell(params, r1, r2, r3) ==
    IF r1 < params.density
    THEN IF r2 < params.gdensity
         THEN DISEASED
         ELSE IF r3 < 50 THEN SPECIES_A ELSE SPECIES_B
    ELSE EMPTY

CellOutcomes(params) ==
    {RandomCell(params, r1, r2, r3) : r1 \in RandomDraws, r2 \in RandomDraws, r3 \in RandomDraws}

(* randomize without its call of clear(). *)
RandomizeNoClear(gm, cells) == [gm EXCEPT !.grid = cells]

Randomize(gm, cells) == [Clear(gm) EXCEPT !.grid = cells]

----------------------------------------------------------------------------
(* InteractionHandler.cycleState *)

(* Cycle: Empty -> A -> B -> Contested -> Diseased -> Empty *)
Cycle == <<EMPTY, SPECIES_A, SPECIES_B, CONTESTED, DISEASED>>

(* Array.prototype.indexOf: the 0-based position of the first match, or -1. *)
IndexOf(array, value) ==
    IF \E k \in 1 .. Len(array) : array[k] = value
    THEN (CHOOSE k \in 1 .. Len(array) :
             array[k] = value /\ \A j \in 1 .. (k - 1) : array[j] # value) - 1
    ELSE -1

(* A cycle that steps to the next number instead of the next entry. *)
CycleStateIncrement(state) == state + 1

(* A cycle in the numeric order of the enum: Diseased before Contested. *)
CycleStateEnumOrder(state) ==
    IF state \in States THEN (state + 1) % Cardinality(States) ELSE EMPTY

CycleState(state) ==
    LET currentIndex == IndexOf(Cycle, state)
    IN  Cycle[((currentIndex + 1) % Len(Cycle)) + 1]

----------------------------------------------------------------------------
(* The program: construction, then edits and generations *)

(* The grid sizes explored: every columns x rows whose arrays hold at most  *)
(* MaxCells cells.                                                         *)
DimChoices ==
    {d \in (1 .. MaxCells) \X (1 .. MaxCells) : d[1] * d[2] <= MaxCells}

InitGrid ==
    /\ \E dims \in DimChoices : gridModel = NewGridModel(dims[1], dims[2])
    /\ ruleParams \in ParamChoices
    /\ ops = 0
    /\ twin = None
    /\ pass = None
    /\ probe = None

Init == InitGrid /\ buffers = None

(* A left click or drag: the cell is set to the brush, a STATE value, or to *)
(* EMPTY with shift held.                                                  *)
DoSetCell ==
    /\ ops < MaxOps
    /\ \E x \in 0 .. (gridModel.columns - 1), y \in 0 .. (gridModel.rows - 1), value \in States :
          gridModel' = SetCell(gridModel, x, y, value)
    /\ ops' = ops + 1
    /\ UNCHANGED <<ruleParams, twin, pass, probe, buffers>>

(* A right click: the cell is set to the state after its own in the cycle. *)
DoCycleCell ==
    /\ ops < MaxOps
    /\ \E x \in 0 .. (gridModel.columns - 1), y \in 0 .. (gridModel.rows - 1) :
          gridModel' = SetCell(gridModel, x, y, CycleState(GetCell(gridModel, x, y)))
    /\ ops' = ops + 1
    /\ UNCHANGED <<ruleParams, twin, pass, probe, buffers>>

DoClear ==
    /\ ops < MaxOps
    /\ gridModel' = Clear(gridModel)
    /\ ops' = ops + 1
    /\ UNCHANGED <<ruleParams, twin, pass, probe, buffers>>

DoResize ==
    /\ ops < MaxOps
    /\ \E dims \in DimChoices, keepContent \in BOOLEAN :
          gridModel' = Resize(gridModel, dims[1], dims[2], keepContent)
    /\ ops' = ops + 1
    /\ UNCHANGED <<ruleParams, twin, pass, probe, buffers>>

DoRandomize ==
    /\ ops < MaxOps
    /\ \E cells \in [Indices(gridModel.columns * gridModel.rows) -> CellOutcomes(ruleParams)] :
          gridModel' = Randomize(gridModel, cells)
    /\ ops' = ops + 1
    /\ UNCHANGED <<ruleParams, twin, pass, probe, buffers>>

DoStep ==
    /\ ops < MaxOps
    /\ gridModel' = StepModel(gridModel, ruleParams)
    /\ ops' = ops + 1
    /\ UNCHANGED <<ruleParams, twin, pass, probe, buffers>>

Next == DoSetCell \/ DoCycleCell \/ DoClear \/ DoResize \/ DoRandomize \/ DoStep

Spec == Init /\ [][Next]_vars

----------------------------------------------------------------------------
(* step() with its per-cell pass opened up: the cells of one generation    *)
(* are updated one at a time in any order (any partition across workers,   *)
(* any interleaving), then the buffers are swapped. No edit runs while a   *)
(* pass is in flight. At most MaxEdits of the MaxOps operations are edits. *)
(* pass holds the grid and the array identities at the start of the pass,  *)
(* the cells still to update and how often each index of next was stored.  *)

InFlight == pass # None /\ ~pass.done

(* The indices of the next buffer that updateCell stores into for cell i:  *)
(* updateCell never reads next, so running it over a next buffer filled    *)
(* with a value no branch stores shows every store it makes.               *)
WrittenBy(gm, i, neighbors, params) ==
    LET blank == [gm EXCEPT !.next = Fill(@, -1)]
        after == UpdateCellWith(blank, i, neighbors, params)
    IN  {j \in DOMAIN after.next : after.next[j] # -1}

PassSetCell ==
    /\ ~InFlight
    /\ ops < MaxEdits
    /\ \E x \in 0 .. (gridModel.columns - 1), y \in 0 .. (gridModel.rows - 1), value \in States :
          gridModel' = SetCell(gridModel, x, y, value)
    /\ ops' = ops + 1
    /\ pass' = None
    /\ UNCHANGED <<ruleParams, twin, probe, buffers>>

BeginStep ==
    /\ ~InFlight
    /\ ops < MaxOps
    /\ pass' = [pre |-> gridModel, params |-> ruleParams,
                pending |-> Indices(gridModel.columns * gridModel.rows), done |-> FALSE,
                writes |-> Fill(gridModel.next, 0), handles |-> buffers]
    /\ ops' = ops + 1
    /\ UNCHANGED <<gridModel, ruleParams, twin, probe, buffers>>

UpdateOne ==
    /\ InFlight
    /\ \E i \in pass.pending :
          \E neighbors \in {GetNeighborCounts(gridModel, i % gridModel.columns,
                                                i \div gridModel.columns)} :
             /\ gridModel' = UpdateCellWith(gridModel, i, neighbors, pass.params)
             /\ \E written \in {WrittenBy(gridModel, i, neighbors, pass.params)} :
                   pass' = [pass EXCEPT
                               !.pending = @ \ {i},
                               !.writes = [j \in DOMAIN @ |->
                                              IF j \in written THEN @[j] + 1 ELSE @[j]]]
    /\ UNCHANGED <<ruleParams, ops, twin, probe, buffers>>

EndStep ==
    /\ InFlight
    /\ pass.pending = {}
    /\ gridModel' = SwapBuffers(gridModel)
    /\ buffers' = SwapHandles(buffers)
    /\ pass' = [pass EXCEPT !.done = TRUE]
    /\ UNCHANGED <<ruleParams, ops, twin, probe>>

NextPass == PassSetCell \/ BeginStep \/ UpdateOne \/ EndStep

InitPass == InitGrid /\ buffers = FreshBuffers

SpecPass == InitPass /\ [][NextPass]_vars

----------------------------------------------------------------------------
(* Two copies of the simulation: the second is restored from the first's   *)
(* current buffer and age arrays, with a next buffer of its own, and both  *)
(* are then stepped under the same parameter snapshot.                     *)

StaleBuffers(gm) ==
    {[i \in Indices(gm.columns * gm.rows) |-> s] : s \in {EMPTY, DISEASED}} \cup {gm.grid}

TwinSetCell ==
    /\ twin = None
    /\ ops < MaxEdits
    /\ \E x \in 0 .. (gridModel.columns - 1), y \in 0 .. (gridModel.rows - 1), value \in States :
          gridModel' = SetCell(gridModel, x, y, value)
    /\ ops' = ops + 1
    /\ UNCHANGED <<ruleParams, twin, pass, probe, buffers>>

TwinStep ==
    /\ twin = None
    /\ ops < MaxOps
    /\ gridModel' = StepModel(gridModel, ruleParams)
    /\ ops' = ops + 1
    /\ UNCHANGED <<ruleParams, twin, pass, probe, buffers>>

Fork ==
    /\ twin = None
    /\ \E stale \in StaleBuffers(gridModel) :
          twin' = [gm |-> [gridModel EXCEPT !.next = stale],
                   differs |-> stale # gridModel.next, steps |-> 0]
    /\ UNCHANGED <<gridModel, ruleParams, ops, pass, probe, buffers>>

StepBoth ==
    /\ twin # None
    /\ ops < MaxOps
    /\ gridModel' = StepModel(gridModel, ruleParams)
    /\ twin' = [twin EXCEPT !.gm = StepModel(@, ruleParams), !.steps = @ + 1]
    /\ ops' = ops + 1
    /\ UNCHANGED <<ruleParams, pass, probe, buffers>>

NextTwin == TwinSetCell \/ TwinStep \/ Fork \/ StepBoth

SpecTwin == Init /\ [][NextTwin]_vars

(* Two grids that differ in what no rule should read: the second has the   *)
(* same current states, the same age_disease at Diseased cells and the     *)
(* same age_contested at Contested cells, while its other ages and its     *)
(* next buffer hold other values.                                          *)

(* The age_disease and age_contested given to the cells outside these      *)
(* states: both cleared, or both at the largest age explored.              *)
HiddenAges == { <<0, 0>>, <<MaxAge, MaxAge>> }

WithHiddenAges(gm, ages) ==
    [gm EXCEPT !.gAge = [i \in DOMAIN @ |-> IF gm.grid[i] = DISEASED THEN @[i] ELSE ages[1]],
               !.yAge = [i \in DOMAIN @ |-> IF gm.grid[i] = CONTESTED THEN @[i] ELSE ages[2]]]

ForkHidden ==
    /\ twin = None
    /\ \E stale \in StaleBuffers(gridModel), ages \in HiddenAges :
          \E other \in {[WithHiddenAges(gridModel, ages) EXCEPT !.next = stale]} :
             twin' = [gm |-> other,
                      differs |-> /\ other.next # gridModel.next
                                  /\ other.gAge # gridModel.gAge
                                  /\ other.yAge # gridModel.yAge,
                      steps |-> 0]
    /\ UNCHANGED <<gridModel, ruleParams, ops, pass, probe, buffers>>

NextHidden == TwinSetCell \/ TwinStep \/ ForkHidden \/ StepBoth

SpecHidden == Init /\ [][NextHidden]_vars

(* Two grids that are each other's image under the exchange of SpeciesA    *)
(* and SpeciesB, stepped under the same parameter snapshot.                *)

(* The parameter sets explored, and each of them with a margin of 0. *)
SymParamChoices == ParamChoices \cup { [p EXCEPT !.marg = 0] : p \in ParamChoices }

SwapState(state) ==
    IF state = SPECIES_A THEN SPECIES_B ELSE IF state = SPECIES_B THEN SPECIES_A ELSE state

(* The grid with SpeciesA and SpeciesB exchanged in every cell. *)
SwapSpecies(gm) ==
    [gm EXCEPT !.grid = [i \in DOMAIN @ |-> SwapState(@[i])],
               !.next = [i \in DOMAIN @ |-> SwapState(@[i])]]

InitSym ==
    /\ \E dims \in DimChoices : gridModel = NewGridModel(dims[1], dims[2])
    /\ ruleParams \in SymParamChoices
    /\ ops = 0
    /\ twin = None
    /\ pass = None
    /\ probe = None
    /\ buffers = None

ForkSwapped ==
    /\ twin = None
    /\ twin' = [gm |-> SwapSpecies(gridModel), differs |-> TRUE, steps |-> 0]
    /\ UNCHANGED <<gridModel, ruleParams, ops, pass, probe, buffers>>

NextSym == TwinSetCell \/ TwinStep \/ ForkSwapped \/ StepBoth

SpecSym == InitSym /\ [][NextSym]_vars

----------------------------------------------------------------------------
(* One cell under the transition rule: the cell, its ages and the neighbour *)
(* counts updateCell works from are drawn, then updateCell is applied once. *)

SurvivalChoices == { <<1, 2, 3>>, <<1, 1, 2>> }
BirthChoices == {1, 3}
ContestChoices == { <<1, 1>>, <<2, 1>>, <<1, 2>> }
InfectionChoices == { <<2, 0>>, <<2, 1>>, <<1, 2>> }
DecayChoices == { <<0, 2>>, <<1, 3>> }

RuleParamSpace ==
    { [birth |-> b, smin |-> s[1], smax |-> s[2], over |-> s[3],
       cmin |-> c[1], marg |-> c[2], istr |-> i[1], iweak |-> i[2],
       tau |-> d[1], ydec |-> d[2], density |-> 0, gdensity |-> 0] :
         b \in BirthChoices, s \in SurvivalChoices, c \in ContestChoices,
         i \in InfectionChoices, d \in DecayChoices }

NeighborSpace ==
    { n \in [A : 0 .. MaxCount, B : 0 .. MaxCount, G : 0 .. MaxCount, Y : 0 .. MaxCount] :
         n.A + n.B + n.G + n.Y <= Len(Offsets) }

(* A grid of one cell holding the given state and ages, next buffer fresh. *)
OneCell(state, gAge, yAge) ==
    [NewGridModel(1, 1) EXCEPT !.grid[0] = state, !.gAge[0] = gAge, !.yAge[0] = yAge]

InitRule ==
    /\ ruleParams \in RuleParamSpace
    /\ \E state \in States, gAge \in 0 .. MaxAge, yAge \in 0 .. MaxAge, n \in NeighborSpace :
          /\ state # DISEASED => gAge = 0
          /\ probe = [before |-> OneCell(state, gAge, yAge), neighbors |-> n, after |-> None]
    /\ gridModel = NewGridModel(1, 1)
    /\ ops = 0
    /\ twin = None
    /\ pass = None
    /\ buffers = None

ApplyRule ==
    /\ probe.after = None
    /\ probe' = [probe EXCEPT !.after = UpdateCellWith(probe.before, 0, probe.neighbors, ruleParams)]
    /\ UNCHANGED <<gridModel, ruleParams, ops, twin, pass, buffers>>

NextRule == ApplyRule

SpecRule == InitRule /\ [][NextRule]_vars

(* What the claims about one cell read: the cell before, the counts, and   *)
(* the cell after (its next state is in the next buffer, before the swap). *)
Applied == probe.after # None
cur == probe.before.grid[0]
curG == probe.before.gAge[0]
curY == probe.before.yAge[0]
nxt == probe.after.next[0]
nxtG == probe.after.gAge[0]
nxtY == probe.after.yAge[0]
nA == probe.neighbors.A
nB == probe.neighbors.B
nG == probe.neighbors.G
nY == probe.neighbors.Y
(* Twice the effective pressures of the specification. *)
PressureA2 == 2 * nA + nY * nA
PressureB2 == 2 * nB + nY * nB

(* The infection condition as the specification words it. *)
SpecWeak ==
    \/ cur = SPECIES_A /\ nA <= 1
    \/ cur = SPECIES_B /\ nB <= 1
    \/ cur = CONTESTED /\ (nA <= 1 \/ nB <= 1)
SpecInfected ==
    /\ cur \in {SPECIES_A, SPECIES_B, CONTESTED}
    /\ \/ nG >= ruleParams.istr
       \/ ruleParams.iweak > 0 /\ nG >= ruleParams.iweak /\ SpecWeak
SpecAdvantageA ==
    PressureA2 >= 2 * ruleParams.cmin /\ PressureA2 - PressureB2 >= 2 * ruleParams.marg
SpecAdvantageB ==
    PressureB2 >= 2 * ruleParams.cmin /\ PressureB2 - PressureA2 >= 2 * ruleParams.marg

(* C4: a SpeciesA, SpeciesB or Contested cell becomes Diseased with        *)
(* age_disease 0 if and only if G >= istr, or iweak > 0 and G >= iweak and *)
(* the cell is weak; the later rules are then ignored.                     *)
C4_InfectionFirst ==
    (Applied /\ cur \in {SPECIES_A, SPECIES_B, CONTESTED})
        => ((nxt = DISEASED /\ nxtG = 0) <=> SpecInfected)

(* A SpeciesA cell with G = istr and nSame within [smin, smax], which the  *)
(* survival rule alone would keep, has become Diseased.                    *)
C4_Witness ==
    /\ Applied
    /\ cur = SPECIES_A
    /\ nG = ruleParams.istr
    /\ nA >= ruleParams.smin /\ nA <= ruleParams.smax
    /\ nA < ruleParams.over /\ nB < ruleParams.over
    /\ ~SpecAdvantageB
    /\ nxt = DISEASED

SpecNoAdvantage == ~SpecAdvantageA /\ ~SpecAdvantageB

C7_Birth ==
    (Applied /\ cur = EMPTY)
        => LET a == PressureA2 >= 2 * ruleParams.birth
               b == PressureB2 >= 2 * ruleParams.birth
           IN  /\ (nxt = CONTESTED /\ nxtY = 0) <=> (a /\ b)
               /\ nxt = SPECIES_A <=> (a /\ ~b)
               /\ nxt = SPECIES_B <=> (b /\ ~a)
               /\ nxt = EMPTY <=> (~a /\ ~b)
               /\ (PressureB2 = 0 /\ PressureA2 = 2 * ruleParams.birth) => nxt = SPECIES_A
               /\ (PressureB2 = 0 /\ PressureA2 = 2 * ruleParams.birth - 2) => nxt = EMPTY

(* An Empty cell with SA exactly at the birth threshold, helped there by a *)
(* Contested neighbour, and SB = 0 has become SpeciesA.                    *)
C7_Witness ==
    /\ Applied
    /\ cur = EMPTY
    /\ PressureB2 = 0
    /\ PressureA2 = 2 * ruleParams.birth
    /\ nY > 0
    /\ nxt = SPECIES_A

(* C8: a SpeciesA or SpeciesB cell that is not infected becomes Contested  *)
(* with age_contested 0 whenever Sopp >= cmin and Sopp-Ssame >= marg, even *)
(* if it would survive; otherwise it keeps its species iff smin <= nSame   *)
(* <= smax, nSame < over and nOpp < over; otherwise it becomes Empty.      *)
C8_SurvivalContest ==
    (Applied /\ cur \in {SPECIES_A, SPECIES_B} /\ ~SpecInfected)
        => LET same == IF cur = SPECIES_A THEN nA ELSE nB
               opp == IF cur = SPECIES_A THEN nB ELSE nA
               advantageOpp == IF cur = SPECIES_A THEN SpecAdvantageB ELSE SpecAdvantageA
               survives == /\ ruleParams.smin <= same /\ same <= ruleParams.smax
                           /\ same < ruleParams.over /\ opp < ruleParams.over
           IN  IF advantageOpp THEN nxt = CONTESTED /\ nxtY = 0
               ELSE IF survives THEN nxt = cur
               ELSE nxt = EMPTY

(* A SpeciesB cell that meets the survival condition has nevertheless      *)
(* become Contested under SpeciesA's advantage.                            *)
C8_Witness ==
    /\ Applied
    /\ cur = SPECIES_B
    /\ ~SpecInfected
    /\ SpecAdvantageA
    /\ ruleParams.smin <= nB /\ nB <= ruleParams.smax
    /\ nB < ruleParams.over /\ nA < ruleParams.over
    /\ nxt = CONTESTED /\ nxtY = 0

(* C9: a Diseased cell becomes Empty with age_disease 0 if age_disease >=  *)
(* tau before the step, and otherwise stays Diseased with age_disease      *)
(* incremented by exactly 1, whatever the neighbour counts.                *)
C9_DiseaseDecay ==
    (Applied /\ cur = DISEASED)
        => IF curG >= ruleParams.tau
           THEN nxt = EMPTY /\ nxtG = 0
           ELSE nxt = DISEASED /\ nxtG = curG + 1

(* A Diseased cell younger than tau, surrounded by diseased and species    *)
(* neighbours, has stayed Diseased and aged by one.                        *)
C9_Witness ==
    /\ Applied
    /\ cur = DISEASED
    /\ curG < ruleParams.tau
    /\ nG > 0 /\ nA > 0 /\ nB > 0
    /\ nxt = DISEASED /\ nxtG = curG + 1

----------------------------------------------------------------------------
(* Age invariants at generation boundaries, under Spec *)

AllIndices == Indices(gridModel.columns * gridModel.rows)

(* C1: at every generation boundary every cell whose state is not          *)
(* Contested has yAge equal to 0.                                          *)
C1_ContestedAgeZero ==
    \A i \in AllIndices : gridModel.grid[i] # CONTESTED => gridModel.yAge[i] = 0

(* C2: at every generation boundary every cell whose state is not          *)
(* Diseased has gAge equal to 0.                                           *)
C2_DiseaseAgeZero ==
    \A i \in AllIndices : gridModel.grid[i] # DISEASED => gridModel.gAge[i] = 0

(* A step has just cleared a Diseased cell (the next buffer still holds    *)
(* the generation before) while another Diseased cell has aged.            *)
C2_Witness ==
    /\ ops >= 2
    /\ \E i \in AllIndices :
          /\ gridModel.next[i] = DISEASED
          /\ gridModel.grid[i] = EMPTY
          /\ gridModel.gAge[i] = 0
    /\ \E j \in AllIndices : gridModel.grid[j] = DISEASED /\ gridModel.gAge[j] > 0

----------------------------------------------------------------------------
(* Synchronous semantics and determinism *)

(* C3: evaluating the cells of one generation in any order yields the same *)
(* post-step state buffer and the same age arrays as the row-major order.  *)
C3_OrderIndependent ==
    (pass # None /\ pass.done)
        => LET rowMajor == StepModel(pass.pre, pass.params)
           IN  /\ gridModel.grid = rowMajor.grid
               /\ gridModel.gAge = rowMajor.gAge
               /\ gridModel.yAge = rowMajor.yAge

(* A pass over four cells has completed on a grid where a Diseased cell    *)
(* aged and a species or contested cell changed state.                     *)
C3_Witness ==
    /\ pass # None /\ pass.done
    /\ gridModel.columns * gridModel.rows >= 4
    /\ \E i \in AllIndices : gridModel.gAge[i] > 0
    /\ \E i \in AllIndices :
          /\ pass.pre.grid[i] \in {SPECIES_A, SPECIES_B, CONTESTED}
          /\ gridModel.grid[i] # pass.pre.grid[i]

(* C10: two copies that start with identical current buffer, age arrays    *)
(* and parameter snapshot have identical current buffers and age arrays    *)
(* after any equal number of steps, whatever their next buffers hold.      *)
C10_Deterministic ==
    twin # None
        => /\ twin.gm.grid = gridModel.grid
           /\ twin.gm.gAge = gridModel.gAge
           /\ twin.gm.yAge = gridModel.yAge

(* Two copies whose next buffers differed have both taken two steps and    *)
(* hold a grid that is not empty.                                          *)
C10_Witness ==
    /\ twin # None
    /\ twin.differs
    /\ twin.steps >= 2
    /\ \E i \in AllIndices : gridModel.grid[i] # EMPTY

----------------------------------------------------------------------------
(* GridModel driven through its interface, one call at a time, with any    *)
(* integer dimensions: probe records the last call and its arguments,      *)
(* buffers the identity of the arrays behind grid and next. A constructor  *)
(* call that threw leaves no object, and the construction is tried again.  *)

(* The dimensions a call may be given: the valid ones, and every pair of   *)
(* -1, 0 and 1.                                                            *)
AnyDims == DimChoices \cup (((-1) .. 1) \X ((-1) .. 1))

(* new Uint8Array(size) throws a RangeError for a negative size and for no *)
(* other integer; nothing else in the constructor or in resize() throws.   *)
RangeErrorThrown(columns, rows) == columns * rows < 0

(* resize() assigns columns and rows before initializeGrids() allocates:   *)
(* when the allocation throws, the object keeps its old arrays under the   *)
(* new dimensions.                                                         *)
ResizeCall(gm, newColumns, newRows, keepContent) ==
    IF RangeErrorThrown(newColumns, newRows)
    THEN [gm EXCEPT !.columns = newColumns, !.rows = newRows]
    ELSE Resize(gm, newColumns, newRows, keepContent)

InitCalls ==
    /\ \E dims \in AnyDims :
          LET thrown == RangeErrorThrown(dims[1], dims[2])
          IN  /\ gridModel = IF thrown THEN None ELSE NewGridModel(dims[1], dims[2])
              /\ buffers = IF thrown THEN None ELSE FreshBuffers
              /\ probe = [op |-> "constructor", columns |-> dims[1], rows |-> dims[2],
                          thrown |-> thrown]
    /\ ruleParams \in ParamChoices
    /\ ops = 0
    /\ twin = None
    /\ pass = None

CallConstructor ==
    /\ ops < MaxOps
    /\ gridModel = None
    /\ \E dims \in AnyDims :
          LET thrown == RangeErrorThrown(dims[1], dims[2])
          IN  /\ gridModel' = IF thrown THEN None ELSE NewGridModel(dims[1], dims[2])
              /\ buffers' = IF thrown THEN None ELSE FreshBuffers
              /\ probe' = [op |-> "constructor", columns |-> dims[1], rows |-> dims[2],
                           thrown |-> thrown]
    /\ ops' = ops + 1
    /\ UNCHANGED <<ruleParams, twin, pass>>

CallResize ==
    /\ ops < MaxOps
    /\ gridModel # None
    /\ \E dims \in AnyDims, keepContent \in BOOLEAN :
          LET thrown == RangeErrorThrown(dims[1], dims[2])
          IN  /\ gridModel' = ResizeCall(gridModel, dims[1], dims[2], keepContent)
              /\ buffers' = IF thrown THEN buffers ELSE FreshBuffers
              /\ probe' = [op |-> "resize", columns |-> dims[1], rows |-> dims[2],
                           keepContent |-> keepContent, thrown |-> thrown]
    /\ ops' = ops + 1
    /\ UNCHANGED <<ruleParams, twin, pass>>

CallSetCell ==
    /\ ops < MaxOps
    /\ gridModel # None
    /\ \E x \in 0 .. (gridModel.columns - 1), y \in 0 .. (gridModel.rows - 1), value \in States :
          /\ gridModel' = SetCell(gridModel, x, y, value)
          /\ probe' = [op |-> "setCell", column |-> x, row |-> y, value |-> value]
    /\ ops' = ops + 1
    /\ UNCHANGED <<ruleParams, twin, pass, buffers>>

CallClear ==
    /\ ops < MaxOps
    /\ gridModel # None
    /\ gridModel' = Clear(gridModel)
    /\ probe' = [op |-> "clear", again |-> probe.op = "clear"]
    /\ ops' = ops + 1
    /\ UNCHANGED <<ruleParams, twin, pass, buffers>>

CallStep ==
    /\ ops < MaxOps
    /\ gridModel # None
    /\ gridModel' = StepModel(gridModel, ruleParams)
    /\ buffers' = SwapHandles(buffers)
    /\ probe' = [op |-> "step"]
    /\ ops' = ops + 1
    /\ UNCHANGED <<ruleParams, twin, pass>>

NextCalls == CallConstructor \/ CallResize \/ CallSetCell \/ CallClear \/ CallStep

SpecCalls == InitCalls /\ [][NextCalls]_vars

(* C11: a constructor or resize call with columns <= 0 or rows <= 0 fails  *)
(* with an error instead of producing a grid, and a call with valid        *)
(* dimensions succeeds whatever call came before it.                       *)
C11_InvalidDimensionRejected ==
    probe.op \in {"constructor", "resize"}
        => /\ (probe.columns <= 0 \/ probe.rows <= 0) => probe.thrown
           /\ (probe.columns > 0 /\ probe.rows > 0)
                 => /\ ~probe.thrown
                    /\ gridModel.columns = probe.columns
                    /\ gridModel.rows = probe.rows
                    /\ DOMAIN gridModel.grid = Indices(probe.columns * probe.rows)

----------------------------------------------------------------------------
(* Neighbour counting on grids of up to MaxSide x MaxSide cells: up to     *)
(* MaxEdits cells are set, then getNeighborCounts is called for one cell;  *)
(* probe holds the call, the cells it scanned and the counts it returned.  *)

SideChoices == (1 .. MaxSide) \X (1 .. MaxSide)

InitTorus ==
    /\ \E dims \in SideChoices : gridModel = NewGridModel(dims[1], dims[2])
    /\ ruleParams = None
    /\ ops = 0
    /\ twin = None
    /\ pass = None
    /\ probe = None
    /\ buffers = None

TorusSetCell ==
    /\ probe = None
    /\ ops < MaxEdits
    /\ \E x \in 0 .. (gridModel.columns - 1), y \in 0 .. (gridModel.rows - 1), value \in States :
          gridModel' = SetCell(gridModel, x, y, value)
    /\ ops' = ops + 1
    /\ UNCHANGED <<ruleParams, twin, pass, probe, buffers>>

TorusCount ==
    /\ probe = None
    /\ \E x \in 0 .. (gridModel.columns - 1), y \in 0 .. (gridModel.rows - 1) :
          probe' = [column |-> x, row |-> y,
                    scanned |-> ScannedCells(gridModel, x, y),
                    counts |-> GetNeighborCounts(gridModel, x, y)]
    /\ UNCHANGED <<gridModel, ruleParams, ops, twin, pass, buffers>>

NextTorus == TorusSetCell \/ TorusCount

SpecTorus == InitTorus /\ [][NextTorus]_vars

(* The grid holds one SpeciesA cell, at (columns-1, rows-1), and the       *)
(* neighbours of (0, 0) have been counted.                                 *)
CornerCounted ==
    /\ probe # None
    /\ probe.column = 0 /\ probe.row = 0
    /\ \A i \in AllIndices :
          gridModel.grid[i] =
              IF i = Idx(gridModel, gridModel.columns - 1, gridModel.rows - 1)
              THEN SPECIES_A ELSE EMPTY

(* How many of the offsets -1, 0, 1 wrap onto the last coordinate of an    *)
(* axis of the given extent, seen from coordinate 0.                       *)
WrapsOntoLast(extent) == IF extent = 1 THEN 3 ELSE IF extent = 2 THEN 2 ELSE 1

(* C12 as stated: for every grid size, with a single SpeciesA cell at      *)
(* (columns-1, rows-1) and every other cell Empty, getNeighborCounts(0,0)  *)
(* returns A = 1 and B = G = Y = 0.                                        *)
C12_CornerCountedOnce ==
    CornerCounted => probe.counts = [A |-> 1, B |-> 0, G |-> 0, Y |-> 0]

(* C12 amended: on such a grid getNeighborCounts(0,0) returns B = G = Y =  *)
(* 0 and A = 1 when columns >= 3 and rows >= 3; on a grid with a dimension *)
(* below 3 several scanned positions wrap onto the corner cell and A > 1:  *)
(* A is the product of the two axes' multiplicities (3 for extent 1, 2 for *)
(* extent 2), less the skipped centre on the 1x1 grid.                     *)
C12_CornerCountedPerWrap ==
    CornerCounted
        => /\ probe.counts.B = 0 /\ probe.counts.G = 0 /\ probe.counts.Y = 0
           /\ probe.counts.A =
                 WrapsOntoLast(gridModel.columns) * WrapsOntoLast(gridModel.rows)
                    - (IF gridModel.columns = 1 /\ gridModel.rows = 1 THEN 1 ELSE 0)
           /\ (gridModel.columns >= 3 /\ gridModel.rows >= 3) => probe.counts.A = 1
           /\ (gridModel.columns < 3 \/ gridModel.rows < 3) => probe.counts.A > 1

(* The corner cell of a grid with at least 3 columns and 3 rows has been   *)
(* counted once from (0, 0).                                               *)
C12_Witness ==
    /\ CornerCounted
    /\ gridModel.columns >= 3 /\ gridModel.rows >= 3
    /\ probe.counts.A = 1

ScannedDistinct ==
    \A j, k \in DOMAIN probe.scanned : j # k => probe.scanned[j] # probe.scanned[k]

ScannedSelf ==
    \E k \in DOMAIN probe.scanned : probe.scanned[k] = <<probe.column, probe.row>>

CountsSum == probe.counts.A + probe.counts.B + probe.counts.G + probe.counts.Y

(* C13 as stated: for every grid size and every cell, the 8 positions      *)
(* scanned by getNeighborCounts are pairwise distinct cells, none of them  *)
(* the cell itself, and A+B+G+Y <= 8.                                      *)
C13_EightDistinctNeighbors ==
    probe # None
        => /\ Len(probe.scanned) = 8
           /\ ScannedDistinct
           /\ ~ScannedSelf
           /\ CountsSum <= 8

(* C13 amended: getNeighborCounts scans 8 positions and A+B+G+Y <= 8 on    *)
(* every grid; the 8 positions are pairwise distinct cells exactly when    *)
(* columns >= 3 and rows >= 3, and the cell itself is among them exactly   *)
(* when columns = 1 or rows = 1; A+B+G+Y is the number of scanned          *)
(* positions that hold a non-Empty cell, so on a grid with a dimension     *)
(* below 3 one cell contributes more than once.                            *)
C13_EightScannedPositions ==
    probe # None
        => /\ Len(probe.scanned) = 8
           /\ CountsSum <= 8
           /\ ScannedDistinct <=> (gridModel.columns >= 3 /\ gridModel.rows >= 3)
           /\ ScannedSelf <=> (gridModel.columns = 1 \/ gridModel.rows = 1)
           /\ CountsSum = Cardinality({k \in DOMAIN probe.scanned :
                              GetCell(gridModel, probe.scanned[k][1], probe.scanned[k][2]) # EMPTY})

(* On a 3x3 grid or larger two different non-Empty cells have each been    *)
(* counted once around a cell that is itself non-Empty or Empty.           *)
C13_Witness ==
    /\ probe # None
    /\ gridModel.columns >= 3 /\ gridModel.rows >= 3
    /\ ScannedDistinct /\ ~ScannedSelf
    /\ CountsSum = 2

----------------------------------------------------------------------------
(* wrap() alone: a value and an extent are drawn, wrap is applied once;     *)
(* until then result holds the value itself, as x does in the source.      *)

WrapValues == (-MaxValue) .. MaxValue

WrapExtents == 1 .. MaxCells

InitWrap ==
    /\ \E v \in WrapValues, extent \in WrapExtents :
          probe = [v |-> v, extent |-> extent, applied |-> FALSE, result |-> v]
    /\ gridModel = NewGridModel(1, 1)
    /\ ruleParams = None
    /\ ops = 0
    /\ twin = None
    /\ pass = None
    /\ buffers = None

ApplyWrap ==
    /\ ~probe.applied
    /\ probe' = [probe EXCEPT !.applied = TRUE, !.result = Wrap(probe.v, probe.extent)]
    /\ UNCHANGED <<gridModel, ruleParams, ops, twin, pass, buffers>>

NextWrap == ApplyWrap

SpecWrap == InitWrap /\ [][NextWrap]_vars

(* C17: for every integer v and every extent > 0 the result r of           *)
(* wrap(v, extent) satisfies 0 <= r < extent and v - r is a multiple of    *)
(* extent.                                                                 *)
C17_FlooredModulo ==
    probe.applied
        => /\ 0 <= probe.result /\ probe.result < probe.extent
           /\ \E q \in (-(MaxValue + 1)) .. (MaxValue + 1) :
                 probe.v - probe.result = q * probe.extent

(* A negative value more than one extent below zero has been wrapped to a  *)
(* positive remainder.                                                     *)
C17_Witness ==
    /\ probe.applied
    /\ probe.v < -probe.extent
    /\ probe.result > 0

----------------------------------------------------------------------------
(* Frame conditions of the GridModel calls, under SpecCalls *)

(* C14: a resize that keeps content leaves every cell (x,y) with           *)
(* x < min(oldColumns,newColumns) and y < min(oldRows,newRows) in its old  *)
(* state and every other cell Empty; a resize that does not keep content   *)
(* leaves every cell Empty; both age arrays are all 0 afterwards.          *)
C14_ResizePreserve ==
    [][(probe'.op = "resize" /\ ~probe'.thrown)
          => LET size == gridModel'.columns * gridModel'.rows
                 minColumns == Min(gridModel.columns, gridModel'.columns)
                 minRows == Min(gridModel.rows, gridModel'.rows)
             IN  /\ gridModel'.columns = probe'.columns
                 /\ gridModel'.rows = probe'.rows
                 /\ gridModel'.gAge = Zeros(size)
                 /\ gridModel'.yAge = Zeros(size)
                 /\ DOMAIN gridModel'.grid = Indices(size)
                 /\ \A x \in 0 .. (gridModel'.columns - 1), y \in 0 .. (gridModel'.rows - 1) :
                       GetCell(gridModel', x, y) =
                           IF probe'.keepContent /\ x < minColumns /\ y < minRows
                           THEN GetCell(gridModel, x, y)
                           ELSE EMPTY]_vars

(* A resize that keeps content has carried a non-Empty cell over into a    *)
(* grid that also has an Empty cell.                                       *)
C14_Witness ==
    /\ probe.op = "resize"
    /\ probe.keepContent /\ ~probe.thrown
    /\ \E i \in AllIndices : gridModel.grid[i] # EMPTY
    /\ \E i \in AllIndices : gridModel.grid[i] = EMPTY

(* C15: setCell(x,y,state) with in-range coordinates sets the state of     *)
(* cell (x,y), resets its gAge to 0 iff state is not Diseased and its yAge *)
(* to 0 iff state is not Contested, and leaves every other cell's state    *)
(* and ages, the next buffer and the dimensions unchanged.                 *)
C15_SetCellFrame ==
    [][probe'.op = "setCell"
          => LET index == Idx(gridModel, probe'.column, probe'.row)
                 value == probe'.value
             IN  /\ gridModel'.grid[index] = value
                 /\ gridModel'.gAge[index] =
                       IF value # DISEASED THEN 0 ELSE gridModel.gAge[index]
                 /\ gridModel'.yAge[index] =
                       IF value # CONTESTED THEN 0 ELSE gridModel.yAge[index]
                 /\ DOMAIN gridModel'.grid = DOMAIN gridModel.grid
                 /\ \A j \in DOMAIN gridModel.grid \ {index} :
                       /\ gridModel'.grid[j] = gridModel.grid[j]
                       /\ gridModel'.gAge[j] = gridModel.gAge[j]
                       /\ gridModel'.yAge[j] = gridModel.yAge[j]
                 /\ gridModel'.next = gridModel.next
                 /\ gridModel'.columns = gridModel.columns
                 /\ gridModel'.rows = gridModel.rows]_vars

(* A Diseased cell that has aged has been set to Diseased again and kept   *)
(* its age.                                                                *)
C15_Witness ==
    /\ probe.op = "setCell"
    /\ probe.value = DISEASED
    /\ gridModel.grid[Idx(gridModel, probe.column, probe.row)] = DISEASED
    /\ gridModel.gAge[Idx(gridModel, probe.column, probe.row)] > 0

(* C16: after clear() every cell is Empty and both age arrays are all 0,   *)
(* and a second clear() right after the first leaves the current states,   *)
(* the ages and the dimensions as the first left them.                     *)
C16_ClearIdempotent ==
    /\ [](probe.op = "clear"
            => \A i \in DOMAIN gridModel.grid :
                  /\ gridModel.grid[i] = EMPTY
                  /\ gridModel.gAge[i] = 0
                  /\ gridModel.yAge[i] = 0)
    /\ [][(probe.op = "clear" /\ probe'.op = "clear")
             => /\ gridModel'.grid = gridModel.grid
                /\ gridModel'.gAge = gridModel.gAge
                /\ gridModel'.yAge = gridModel.yAge
                /\ gridModel'.columns = gridModel.columns
                /\ gridModel'.rows = gridModel.rows]_vars

(* clear() has been called twice in a row on a grid that a step had        *)
(* populated: the next buffer, which clear() leaves alone, still holds a   *)
(* non-Empty cell.                                                         *)
C16_Witness ==
    /\ probe.op = "clear"
    /\ probe.again
    /\ \E i \in DOMAIN gridModel.next : gridModel.next[i] # EMPTY

----------------------------------------------------------------------------
(* Shape of the buffers and the exchange of their roles *)

Lengths(gm) ==
    {Cardinality(DOMAIN gm.grid), Cardinality(DOMAIN gm.next),
     Cardinality(DOMAIN gm.gAge), Cardinality(DOMAIN gm.yAge)}

(* C18: after any sequence of construction, resize, clear, setCell and     *)
(* step the current buffer, the next buffer and both age arrays have       *)
(* length columns x rows with columns > 0 and rows > 0, and the current    *)
(* and next buffers are two distinct arrays.                               *)
C18_ShapeInvariant ==
    gridModel # None
        => /\ gridModel.columns > 0 /\ gridModel.rows > 0
           /\ Lengths(gridModel) = {gridModel.columns * gridModel.rows}
           /\ buffers.grid # buffers.next

(* C19: while the cells of a generation are updated the current buffer is  *)
(* not written and the arrays keep their roles; each index of next is      *)
(* stored exactly once, when its cell is updated; once the roles have been *)
(* exchanged at the end, next holds the generation before the step and the *)
(* current buffer the newly computed one.                                  *)
C19_BufferSwap ==
    pass # None
        => /\ \A j \in DOMAIN pass.writes :
                 pass.writes[j] = IF j \in pass.pending THEN 0 ELSE 1
           /\ ~pass.done
                 => /\ gridModel.grid = pass.pre.grid
                    /\ buffers = pass.handles
           /\ pass.done
                 => /\ gridModel.next = pass.pre.grid
                    /\ gridModel.grid = StepLoop(pass.pre, pass.params, 0).next
                    /\ buffers.grid = pass.handles.next
                    /\ buffers.next = pass.handles.grid

(* A second generation has been completed on four cells: the buffers are   *)
(* back in their first roles, every index was stored once, and the new     *)
(* generation differs from the one before.                                 *)
C19_Witness ==
    /\ pass # None /\ pass.done
    /\ buffers = FreshBuffers
    /\ gridModel.columns * gridModel.rows >= 4
    /\ \A j \in DOMAIN pass.writes : pass.writes[j] = 1
    /\ gridModel.grid # gridModel.next
    /\ \E i \in AllIndices : gridModel.next[i] # EMPTY

----------------------------------------------------------------------------
(* The closed state enum, under Spec *)

(* C20: after any sequence of step, setCell with a brush or cycleState     *)
(* value, clear, resize and randomize every cell of both buffers holds one *)
(* of Empty, SpeciesA, SpeciesB, Diseased, Contested, and no cell is in a  *)
(* state for which updateCell would run its fallback branch.               *)
C20_ClosedEnum ==
    \A i \in AllIndices :
       /\ gridModel.grid[i] \in States
       /\ gridModel.next[i] \in States
       /\ ~ReachesFallback(gridModel.grid[i])

(* A step has turned a cell Contested next to a Diseased cell: four of the *)
(* five states are on the grid or in the generation before it.             *)
C20_Witness ==
    /\ \E i \in AllIndices :
          /\ gridModel.grid[i] = CONTESTED
          /\ gridModel.next[i] \in {EMPTY, SPECIES_A, SPECIES_B}
    /\ \E j \in AllIndices : gridModel.grid[j] = DISEASED
    /\ \E j \in AllIndices : gridModel.next[j] \in {SPECIES_A, SPECIES_B}

(* C21: effective pressure is multiplicative, so a species without a       *)
(* neighbour of its own has pressure 0 whatever the number Y of Contested  *)
(* neighbours, and for birth >= 1 an Empty cell with no SpeciesA neighbour *)
(* becomes neither SpeciesA nor Contested in a step; the same for SpeciesB. *)
C21_MultiplicativePressure ==
    Applied =>
        /\ nA = 0 => EffectivePressure2(nA, nY) = 0
        /\ nB = 0 => EffectivePressure2(nB, nY) = 0
        /\ (cur = EMPTY /\ ruleParams.birth >= 1 /\ nA = 0)
              => nxt \notin {SPECIES_A, CONTESTED}
        /\ (cur = EMPTY /\ ruleParams.birth >= 1 /\ nB = 0)
              => nxt \notin {SPECIES_B, CONTESTED}

(* An Empty cell with two Contested neighbours and no SpeciesA neighbour   *)
(* under birth = 1, which a flat pressure of 0.5 * Y = 1 would populate.   *)
C21_Witness ==
    /\ Applied
    /\ cur = EMPTY
    /\ ruleParams.birth = 1
    /\ nA = 0 /\ nB = 0 /\ nY = 2
    /\ nxt = EMPTY

-----------------------------------------------------------------------------
(* InteractionHandler: pointer events on the canvas *)

MaxRect == 2

(* The brushes of the brush selector. *)
BrushChoices == {SPECIES_A, SPECIES_B, CONTESTED, DISEASED}

(* getBoundingClientRect() of a displayed canvas, which CSS may scale: each *)
(* side is the smallest or the largest extent explored, and the origin is  *)
(* taken as 0 since only clientX - left and clientY - top are read.        *)
RectChoices ==
    { [left |-> 0, top |-> 0, width |-> w, height |-> h] :
         w \in {1, MaxRect}, h \in {1, MaxRect} }

(* Pointer positions from one unit left of or above the canvas to one unit *)
(* right of or below its last pixel; button is read by pointerdown and     *)
(* buttons by pointermove, 2 being the right button in both.               *)
PointerEvents(rect) ==
    { [clientX |-> cx, clientY |-> cy, button |-> b, buttons |-> b, shiftKey |-> sh] :
         cx \in (rect.left - 1) .. (rect.left + rect.width),
         cy \in (rect.top - 1) .. (rect.top + rect.height),
         b \in {0, 2}, sh \in BOOLEAN }

(* eventToCell without the clamping of its return statement. *)
EventToCellUnclamped(gm, rect, event) ==
    << ((event.clientX - rect.left) * gm.columns) \div rect.width,
       ((event.clientY - rect.top) * gm.rows) \div rect.height >>

(* Math.floor((clientX - left) / width * columns), then the clamp to       *)
(* [0, columns - 1]; \div rounds toward minus infinity as Math.floor does. *)
EventToCell(gm, rect, event) ==
    LET x == ((event.clientX - rect.left) * gm.columns) \div rect.width
        y == ((event.clientY - rect.top) * gm.rows) \div rect.height
    IN  << Max(0, Min(gm.columns - 1, x)), Max(0, Min(gm.rows - 1, y)) >>

InitPointer ==
    /\ \E dims \in DimChoices : gridModel = NewGridModel(dims[1], dims[2])
    /\ probe = [painting |-> FALSE, brush |-> SPECIES_A, called |-> FALSE, x |-> 0, y |-> 0,
                resized |-> FALSE]
    /\ ruleParams = None
    /\ ops = 0
    /\ twin = None
    /\ pass = None
    /\ buffers = None

BrushChange ==
    /\ \E value \in BrushChoices : probe' = [probe EXCEPT !.brush = value]
    /\ UNCHANGED <<gridModel, ruleParams, ops, twin, pass, buffers>>

PointerDown ==
    /\ ops < MaxEdits
    /\ \E rect \in RectChoices : \E event \in PointerEvents(rect) :
          \E cell \in {EventToCell(gridModel, rect, event)} :
             /\ gridModel' =
                   IF event.button = 2
                   THEN SetCell(gridModel, cell[1], cell[2],
                                CycleState(GetCell(gridModel, cell[1], cell[2])))
                   ELSE SetCell(gridModel, cell[1], cell[2],
                                IF event.shiftKey THEN EMPTY ELSE probe.brush)
             /\ probe' = [probe EXCEPT !.painting = TRUE, !.called = TRUE,
                                       !.x = cell[1], !.y = cell[2]]
    /\ ops' = ops + 1
    /\ UNCHANGED <<ruleParams, twin, pass, buffers>>

PointerUp ==
    /\ probe' = [probe EXCEPT !.painting = FALSE]
    /\ UNCHANGED <<gridModel, ruleParams, ops, twin, pass, buffers>>

PointerMove ==
    /\ probe.painting
    /\ ops < MaxEdits
    /\ \E rect \in RectChoices : \E event \in PointerEvents(rect) :
          \E cell \in {EventToCell(gridModel, rect, event)} :
             /\ gridModel' =
                   SetCell(gridModel, cell[1], cell[2],
                           IF event.shiftKey THEN EMPTY
                           ELSE IF event.buttons = 2
                           THEN CycleState(GetCell(gridModel, cell[1], cell[2]))
                           ELSE probe.brush)
             /\ probe' = [probe EXCEPT !.called = TRUE, !.x = cell[1], !.y = cell[2]]
    /\ ops' = ops + 1
    /\ UNCHANGED <<ruleParams, twin, pass, buffers>>

(* The resize button: the grid is replaced in place, content dropped; ops  *)
(* counts the edits, pointerdown and pointermove.                          *)
PointerResize ==
    /\ \E dims \in DimChoices :
          gridModel' = Resize(gridModel, dims[1], dims[2], FALSE)
    /\ probe' = [probe EXCEPT !.called = FALSE, !.resized = TRUE]
    /\ UNCHANGED <<ruleParams, ops, twin, pass, buffers>>

NextPointer == BrushChange \/ PointerDown \/ PointerUp \/ PointerMove \/ PointerResize

SpecPointer == InitPointer /\ [][NextPointer]_vars

(* C22: for every pointerdown and pointermove position, left of, above,    *)
(* right of or below the canvas included, the (x, y) that the handler      *)
(* passes to getCell and setCell satisfies 0 <= x < columns and            *)
(* 0 <= y < rows on a grid with columns, rows >= 1, also after a resize.   *)
C22_PreClampedCoordinates ==
    (probe.called /\ gridModel.columns >= 1 /\ gridModel.rows >= 1)
        => /\ 0 <= probe.x /\ probe.x < gridModel.columns
           /\ 0 <= probe.y /\ probe.y < gridModel.rows

(* After a resize, a drag has passed the last column and row of a grid     *)
(* with more than one column: the position was right of the canvas.        *)
C22_Witness ==
    /\ probe.called
    /\ probe.painting
    /\ probe.resized
    /\ ops = MaxEdits
    /\ gridModel.columns >= 2
    /\ probe.x = gridModel.columns - 1
    /\ probe.y = gridModel.rows - 1

-----------------------------------------------------------------------------
(* One cell through the generations: its neighbour counts are drawn anew   *)
(* for each generation, as the rest of a grid would supply them, and no    *)
(* edit is made between the steps.                                         *)

(* The largest threshold a slider supplies: the counters range over 0..255 *)
(* and exceed the configured thresholds.                                   *)
MaxThreshold == Uint8Modulus - 1

(* The (tau, ydec) pairs explored, the extremes of the range among them. *)
LifeDecayChoices == { <<0, 0>>, <<1, 2>>, <<MaxThreshold, 3>>, <<2, MaxThreshold>> }

LifeParamSpace ==
    { [p EXCEPT !.tau = d[1], !.ydec = d[2]] : p \in ParamChoices, d \in LifeDecayChoices }

(* The first boundary of the window: a cell in any state, a Diseased one   *)
(* at age_disease 0, and an age_contested as an earlier generation under   *)
(* the same parameters can have left it.                                   *)
InitLife ==
    /\ ruleParams \in LifeParamSpace
    /\ \E state \in States, yAge \in 0 .. MaxAge :
          /\ yAge < Max(ruleParams.ydec, 1)
          /\ gridModel = OneCell(state, 0, yAge)
    /\ probe = [run |-> 1, was |-> Undefined]
    /\ ops = 0
    /\ twin = None
    /\ pass = None
    /\ buffers = None

(* One generation. run counts the consecutive generation boundaries at     *)
(* which the cell has been Diseased, or Contested, up to this one, and was *)
(* is its state at the boundary before.                                    *)
LifeStep ==
    /\ \E n \in NeighborSpace :
          gridModel' = SwapBuffers(UpdateCellWith(gridModel, 0, n, ruleParams))
    /\ probe' = [run |-> IF /\ gridModel'.grid[0] = gridModel.grid[0]
                            /\ gridModel.grid[0] \in {DISEASED, CONTESTED}
                         THEN Min(probe.run + 1, Uint8Modulus + 2)
                         ELSE 1,
                 was |-> gridModel.grid[0]]
    /\ UNCHANGED <<ruleParams, ops, twin, pass, buffers>>

NextLife == LifeStep

SpecLife == InitLife /\ [][NextLife]_vars

(* While the animation runs, every frame of its loop takes a step. *)
SpecLifeFair == SpecLife /\ WF_vars(LifeStep)

(* C23: the 8-bit age counters never wrap: under a fixed parameter         *)
(* snapshot, after any number of steps age_disease <= tau and              *)
(* age_contested < max(ydec, 1), and a counter has counted every boundary  *)
(* of the cell's stay, so no increment went from 255 back to 0.            *)
C23_AgesNeverWrap ==
    /\ gridModel.gAge[0] <= ruleParams.tau
    /\ gridModel.yAge[0] < Max(ruleParams.ydec, 1)
    /\ gridModel.grid[0] = DISEASED => gridModel.gAge[0] = probe.run - 1
    /\ gridModel.grid[0] = CONTESTED => gridModel.yAge[0] >= probe.run - 1

(* A Diseased cell whose age has reached the threshold 255. *)
C23_Witness ==
    /\ gridModel.grid[0] = DISEASED
    /\ ruleParams.tau = MaxThreshold
    /\ gridModel.gAge[0] = Uint8Modulus - 1
    /\ probe.run = Uint8Modulus

(* C24: whenever a cell enters the Contested state from a different state, *)
(* by a step or by setCell(x, y, Contested) on a non-Contested cell, its   *)
(* age_contested is 0 at that moment, whatever steps and edits came before. *)
C24_EntersContestedAtZero ==
    \A i \in DOMAIN gridModel.grid :
        gridModel.grid[i] # CONTESTED =>
            /\ SetCell(gridModel, i % gridModel.columns, i \div gridModel.columns,
                       CONTESTED).yAge[i] = 0
            /\ LET after == StepModel(gridModel, ruleParams)
               IN  after.grid[i] = CONTESTED => after.yAge[i] = 0

(* C25: disease always clears: under a fixed parameter snapshot with       *)
(* tau >= 0 and no edits, a cell that becomes Diseased (age 0) is Diseased *)
(* at exactly tau + 1 consecutive generation boundaries and Empty at the   *)
(* next one; hence every Diseased cell eventually becomes Empty.           *)
C25_DiseaseClears ==
    /\ [](gridModel.grid[0] = DISEASED => probe.run <= ruleParams.tau + 1)
    /\ [][gridModel.grid[0] = DISEASED =>
             gridModel'.grid[0] = IF probe.run = ruleParams.tau + 1
                                  THEN EMPTY ELSE DISEASED]_vars
    /\ (gridModel.grid[0] = DISEASED) ~> (gridModel.grid[0] = EMPTY)

(* Under the largest threshold, tau = 255, a cell that was Diseased at the *)
(* boundary before is Empty.                                               *)
C25_Witness ==
    /\ ruleParams.tau = MaxThreshold
    /\ gridModel.grid[0] = EMPTY
    /\ probe.was = DISEASED

(* C26: the Contested state is bounded in time: under a fixed parameter    *)
(* snapshot and no edits, no cell is Contested at more than max(ydec, 1)   *)
(* consecutive generation boundaries.                                      *)
C26_ContestedBounded ==
    gridModel.grid[0] = CONTESTED => probe.run <= Max(ruleParams.ydec, 1)

(* Under the largest threshold, ydec = 255, a cell is Contested at its     *)
(* 255th boundary in a row.                                                *)
C26_Witness ==
    /\ gridModel.grid[0] = CONTESTED
    /\ ruleParams.ydec = MaxThreshold
    /\ probe.run = ruleParams.ydec

(* C27: in a single step an Empty cell never becomes Diseased; a Diseased  *)
(* cell becomes only Diseased or Empty; a SpeciesA cell never becomes      *)
(* SpeciesB and a SpeciesB cell never becomes SpeciesA.                    *)
C27_AllowedTransitions ==
    Applied =>
        /\ cur = EMPTY => nxt # DISEASED
        /\ cur = DISEASED => nxt \in {DISEASED, EMPTY}
        /\ cur = SPECIES_A => nxt # SPECIES_B
        /\ cur = SPECIES_B => nxt # SPECIES_A

(* An Empty cell with as many Diseased neighbours as the strong infection  *)
(* asks for, and enough SpeciesB pressure for a birth, has become SpeciesB. *)
C27_Witness ==
    /\ Applied
    /\ cur = EMPTY
    /\ nG >= ruleParams.istr
    /\ nA = 0
    /\ nxt = SPECIES_B

(* C28: hidden state does not leak into a generation: two grids with the   *)
(* same current states and parameters that agree on age_disease at         *)
(* Diseased cells and on age_contested at Contested cells have the same    *)
(* states after a step, whatever ages their other cells store and whatever *)
(* their next buffers hold; they then agree in the same way again.         *)
C28_HiddenStateDoesNotLeak ==
    twin # None
        => /\ twin.gm.grid = gridModel.grid
           /\ \A i \in DOMAIN gridModel.grid :
                 /\ gridModel.grid[i] = DISEASED => twin.gm.gAge[i] = gridModel.gAge[i]
                 /\ gridModel.grid[i] = CONTESTED => twin.gm.yAge[i] = gridModel.yAge[i]

(* Two grids that differed in next buffer, age_disease and age_contested   *)
(* have taken a step and hold a Contested cell beside an Empty one.        *)
C28_Witness ==
    /\ twin # None
    /\ twin.differs
    /\ twin.steps >= 1
    /\ \E i \in DOMAIN gridModel.grid : gridModel.grid[i] = CONTESTED
    /\ \E i \in DOMAIN gridModel.grid : gridModel.grid[i] = EMPTY

(* C29 as stated: neither species is favoured: for every grid, age arrays  *)
(* and parameter snapshot, exchanging SpeciesA and SpeciesB in every cell  *)
(* and then stepping gives the grid obtained by stepping first and         *)
(* exchanging afterwards, ages identical.                                  *)
C29_SpeciesSymmetry ==
    twin # None
        => /\ twin.gm.grid = SwapSpecies(gridModel).grid
           /\ twin.gm.gAge = gridModel.gAge
           /\ twin.gm.yAge = gridModel.yAge

(* C29 amended: the exchange commutes with the step for every grid, age    *)
(* arrays and parameter snapshot with marg >= 1.                           *)
C29_SymmetryPositiveMargin ==
    (twin # None /\ ruleParams.marg >= 1)
        => /\ twin.gm.grid = SwapSpecies(gridModel).grid
           /\ twin.gm.gAge = gridModel.gAge
           /\ twin.gm.yAge = gridModel.yAge

(* Under a positive margin a grid and its image have taken a step and the  *)
(* grid holds a SpeciesA cell, the image a SpeciesB cell in its place.     *)
C29_Witness ==
    /\ twin # None
    /\ ruleParams.marg >= 1
    /\ twin.steps >= 1
    /\ \E i \in DOMAIN gridModel.grid :
          gridModel.grid[i] = SPECIES_A /\ twin.gm.grid[i] = SPECIES_B

-----------------------------------------------------------------------------
(* The grid between a clearing and the next edit: probe.clean says that    *)
(* the grid was created, resized without its content or cleared and has    *)
(* not been edited since, probe.steps counts the steps taken since then    *)
(* and probe.edited says that an edit was made at some earlier time.       *)

(* The parameter sets explored, and each of them with birth = 1. *)
BirthParamChoices == ParamChoices \cup { [p EXCEPT !.birth = 1] : p \in ParamChoices }

InitCleared ==
    /\ \E dims \in DimChoices : gridModel = NewGridModel(dims[1], dims[2])
    /\ ruleParams \in BirthParamChoices
    /\ probe = [clean |-> TRUE, steps |-> 0, edited |-> FALSE]
    /\ ops = 0
    /\ twin = None
    /\ pass = None
    /\ buffers = None

ClearedSetCell ==
    /\ ops < MaxOps
    /\ \E x \in 0 .. (gridModel.columns - 1), y \in 0 .. (gridModel.rows - 1),
          value \in States \ {EMPTY} :
          gridModel' = SetCell(gridModel, x, y, value)
    /\ probe' = [clean |-> FALSE, steps |-> 0, edited |-> TRUE]
    /\ ops' = ops + 1
    /\ UNCHANGED <<ruleParams, twin, pass, buffers>>

ClearedClear ==
    /\ ops < MaxOps
    /\ gridModel' = Clear(gridModel)
    /\ probe' = [probe EXCEPT !.clean = TRUE, !.steps = 0]
    /\ ops' = ops + 1
    /\ UNCHANGED <<ruleParams, twin, pass, buffers>>

ClearedResize ==
    /\ ops < MaxOps
    /\ \E dims \in DimChoices :
          gridModel' = Resize(gridModel, dims[1], dims[2], FALSE)
    /\ probe' = [probe EXCEPT !.clean = TRUE, !.steps = 0]
    /\ ops' = ops + 1
    /\ UNCHANGED <<ruleParams, twin, pass, buffers>>

ClearedStep ==
    /\ ops < MaxOps
    /\ gridModel' = StepModel(gridModel, ruleParams)
    /\ probe' = [probe EXCEPT !.steps = @ + 1]
    /\ ops' = ops + 1
    /\ UNCHANGED <<ruleParams, twin, pass, buffers>>

NextCleared == ClearedSetCell \/ ClearedClear \/ ClearedResize \/ ClearedStep

SpecCleared == InitCleared /\ [][NextCleared]_vars

(* C30: the all-Empty grid is a fixed point: for every parameter snapshot  *)
(* with birth >= 1, after clear(), or on a freshly created or resized      *)
(* grid, any number of steps leaves every cell Empty and all ages 0.       *)
C30_EmptyFixedPoint ==
    (probe.clean /\ ruleParams.birth >= 1)
        => \A i \in DOMAIN gridModel.grid :
              /\ gridModel.grid[i] = EMPTY
              /\ gridModel.gAge[i] = 0
              /\ gridModel.yAge[i] = 0

(* Under birth = 1 a grid of several cells that had been edited was        *)
(* cleared and has taken two steps.                                        *)
C30_Witness ==
    /\ probe.clean
    /\ probe.edited
    /\ probe.steps >= 2
    /\ ruleParams.birth = 1
    /\ gridModel.columns * gridModel.rows >= 2

-----------------------------------------------------------------------------
(* AnimationController: play, pause, manual steps and the frame loop.      *)
(* probe.ctl is the controller: running, lastTick, targetFPS and pending,  *)
(* the number of loop callbacks requested from requestAnimationFrame that  *)
(* have not fired yet. probe.clock is the time a callback would be given,  *)
(* probe.op the last call, probe.loopSteps the number of simulation steps  *)
(* the loop has made since the last pause(), and ops the generation.       *)

MaxTime == 3
MaxPending == 3

(* Timestamps are counted in quarters of a second instead of milliseconds. *)
TicksPerSecond == 4

(* The values of the speed slider explored. *)
FpsChoices == {2, 4}

(* const interval = 1000 / Math.max(1, this.targetFPS) *)
Interval(ctl) == TicksPerSecond \div Max(1, ctl.targetFPS)

Play(ctl) ==
    [ctl EXCEPT !.running = TRUE, !.lastTick = 0, !.pending = @ + 1]

Pause(ctl) == [ctl EXCEPT !.running = FALSE]

TogglePlay(ctl) == IF ctl.running THEN Pause(ctl) ELSE Play(ctl)

(* A manual step that does not look at the running flag. *)
ManualStepAllowedAlways(ctl) == TRUE

(* The guard of step(): if (!this.running). *)
ManualStepAllowed(ctl) == ~ctl.running

(* A loop that goes on whatever the running flag says. *)
LoopContinuesAlways(ctl) == TRUE

(* The guard of loop(): if (!this.running) return. *)
LoopContinues(ctl) == ctl.running

(* Whether loop(timestamp) calls simulation.step(). *)
LoopSteps(ctl, timestamp) ==
    LoopContinues(ctl) /\ timestamp - ctl.lastTick >= Interval(ctl)

(* loop(timestamp): the callback that fires is no longer pending; unless   *)
(* it returns at once it records the tick of a step it makes and requests  *)
(* the next frame.                                                         *)
Loop(ctl, timestamp) ==
    IF ~LoopContinues(ctl)
    THEN [ctl EXCEPT !.pending = @ - 1]
    ELSE [ctl EXCEPT !.lastTick = IF LoopSteps(ctl, timestamp) THEN timestamp ELSE @,
                     !.pending = (@ - 1) + 1]

(* A seed of one SpeciesA cell and one SpeciesB cell at opposite corners,   *)
(* in place of the clusters of seedInitialPattern, which need 10 x 10.     *)
SeedCorners(gm) ==
    SetCell(SetCell(gm, 0, 0, SPECIES_A), gm.columns - 1, gm.rows - 1, SPECIES_B)

InitAnim ==
    /\ \E dims \in DimChoices : gridModel = SeedCorners(NewGridModel(dims[1], dims[2]))
    /\ ruleParams \in ParamChoices
    /\ \E fps \in FpsChoices :
          probe = [ctl |-> [running |-> FALSE, lastTick |-> 0, targetFPS |-> fps,
                            pending |-> 0],
                   clock |-> 0, op |-> "other", loopSteps |-> 0]
    /\ ops = 0
    /\ twin = None
    /\ pass = None
    /\ buffers = None

(* The play button and the space key. *)
CallTogglePlay ==
    /\ probe.ctl.pending < MaxPending
    /\ probe' = [probe EXCEPT !.ctl = TogglePlay(@),
                              !.op = "other",
                              !.loopSteps = IF probe.ctl.running THEN 0 ELSE @]
    /\ UNCHANGED <<gridModel, ruleParams, ops, twin, pass, buffers>>

CallPlay ==
    /\ probe.ctl.pending < MaxPending
    /\ probe' = [probe EXCEPT !.ctl = Play(@), !.op = "other"]
    /\ UNCHANGED <<gridModel, ruleParams, ops, twin, pass, buffers>>

CallPause ==
    /\ probe' = [probe EXCEPT !.ctl = Pause(@), !.op = "other", !.loopSteps = 0]
    /\ UNCHANGED <<gridModel, ruleParams, ops, twin, pass, buffers>>

(* The step button: AnimationController.step(). *)
CallManualStep ==
    /\ ops < MaxOps
    /\ IF ManualStepAllowed(probe.ctl)
       THEN /\ gridModel' = StepModel(gridModel, ruleParams)
            /\ ops' = ops + 1
       ELSE UNCHANGED <<gridModel, ops>>
    /\ probe' = [probe EXCEPT !.op = "step"]
    /\ UNCHANGED <<ruleParams, twin, pass, buffers>>

(* The n key: the handler tests the flag itself and then calls step(). *)
KeyN ==
    /\ ops < MaxOps
    /\ IF ~probe.ctl.running /\ ManualStepAllowed(probe.ctl)
       THEN /\ gridModel' = StepModel(gridModel, ruleParams)
            /\ ops' = ops + 1
       ELSE UNCHANGED <<gridModel, ops>>
    /\ probe' = [probe EXCEPT !.op = "step"]
    /\ UNCHANGED <<ruleParams, twin, pass, buffers>>

UpdateSpeed ==
    /\ \E fps \in FpsChoices : probe' = [probe EXCEPT !.ctl.targetFPS = fps, !.op = "other"]
    /\ UNCHANGED <<gridModel, ruleParams, ops, twin, pass, buffers>>

(* Time passes between two callbacks. *)
Tick ==
    /\ probe.clock < MaxTime
    /\ probe' = [probe EXCEPT !.clock = @ + 1, !.op = "other"]
    /\ UNCHANGED <<gridModel, ruleParams, ops, twin, pass, buffers>>

(* The browser fires one pending callback with the current time. *)
Frame ==
    /\ probe.ctl.pending > 0
    /\ ops < MaxOps
    /\ IF LoopSteps(probe.ctl, probe.clock)
       THEN /\ gridModel' = StepModel(gridModel, ruleParams)
            /\ ops' = ops + 1
       ELSE UNCHANGED <<gridModel, ops>>
    /\ probe' = [probe EXCEPT !.ctl = Loop(@, probe.clock), !.op = "frame",
                              !.loopSteps = IF LoopSteps(probe.ctl, probe.clock)
                                            THEN 1 ELSE @]
    /\ UNCHANGED <<ruleParams, twin, pass, buffers>>

NextAnim ==
    \/ CallTogglePlay \/ CallPlay \/ CallPause
    \/ CallManualStep \/ KeyN \/ UpdateSpeed \/ Tick \/ Frame

SpecAnim == InitAnim /\ [][NextAnim]_vars

(* C31: manual stepping only works while paused: step() advances the       *)
(* simulation by exactly one generation when running is false, and leaves  *)
(* the grid, the ages and the running flag unchanged when running is true. *)
C31_ManualStepOnlyWhilePaused ==
    [][probe'.op = "step" =>
          IF ~probe.ctl.running
          THEN /\ gridModel' = StepModel(gridModel, ruleParams)
               /\ ops' = ops + 1
               /\ probe'.ctl = probe.ctl
          ELSE /\ gridModel' = gridModel
               /\ ops' = ops
               /\ probe'.ctl = probe.ctl]_vars

(* A manual step was asked for while the animation was running, after the  *)
(* loop had made a generation.                                             *)
C31_Witness ==
    /\ probe.op = "step"
    /\ probe.ctl.running
    /\ probe.ctl.pending = 1
    /\ ops >= 1

(* C32: pause() stops the animation: no frame callback invokes             *)
(* simulation.step() between a pause() and the next play(), even when a    *)
(* callback requested before the pause fires afterwards.                   *)
C32_PauseStopsStepping ==
    ~probe.ctl.running => probe.loopSteps = 0

(* A callback requested before a pause has fired after it and found        *)
(* nothing to do: the controller is paused and no callback is pending.     *)
C32_Witness ==
    /\ ~probe.ctl.running
    /\ probe.op = "frame"
    /\ probe.ctl.pending = 0
    /\ ops >= 1

(* C33: at most one animation loop is alive: for any interleaving of       *)
(* play(), pause(), togglePlay() and frame callbacks at most one loop      *)
(* callback is pending at any time.                                        *)
C33_SingleLoop ==
    probe.ctl.pending <= 1

-----------------------------------------------------------------------------
(* Application.randomize on a grid that edits and generations have used.   *)

(* The sliders as they stand, with density at 0, and with density at 1    *)
(* and gdensity at 0.5 (in percent).                                       *)
RandomParamChoices ==
    ParamChoices
        \cup { [p EXCEPT !.density = 0] : p \in ParamChoices }
        \cup { [p EXCEPT !.density = 100, !.gdensity = 50] : p \in ParamChoices }

RandomDims == {d \in DimChoices : d[1] * d[2] < MaxCells}

InitRandom ==
    /\ \E dims \in RandomDims : gridModel = NewGridModel(dims[1], dims[2])
    /\ ruleParams \in RandomParamChoices
    /\ probe = [op |-> "constructor"]
    /\ ops = 0
    /\ twin = None
    /\ pass = None
    /\ buffers = None

RandomSetCell ==
    /\ ops < MaxEdits
    /\ \E x \in 0 .. (gridModel.columns - 1), y \in 0 .. (gridModel.rows - 1),
          value \in {CONTESTED, DISEASED} :
          gridModel' = SetCell(gridModel, x, y, value)
    /\ probe' = [op |-> "setCell"]
    /\ ops' = ops + 1
    /\ UNCHANGED <<ruleParams, twin, pass, buffers>>

RandomStep ==
    /\ ops < MaxOps
    /\ gridModel' = StepModel(gridModel, ruleParams)
    /\ probe' = [op |-> "step"]
    /\ ops' = ops + 1
    /\ UNCHANGED <<ruleParams, twin, pass, buffers>>

CallRandomize ==
    /\ ops < MaxOps
    /\ \E cells \in [Indices(gridModel.columns * gridModel.rows) -> CellOutcomes(ruleParams)] :
          gridModel' = Randomize(gridModel, cells)
    /\ probe' = [op |-> "randomize"]
    /\ ops' = ops + 1
    /\ UNCHANGED <<ruleParams, twin, pass, buffers>>

NextRandom == RandomSetCell \/ RandomStep \/ CallRandomize

SpecRandom == InitRandom /\ [][NextRandom]_vars

(* C34: randomize(), for every density and gdensity in [0, 1] and every    *)
(* outcome of the draws, leaves every cell Empty, SpeciesA, SpeciesB or    *)
(* Diseased with both age arrays all 0; with density = 0 the grid is all   *)
(* Empty and with gdensity = 1 every non-Empty cell is Diseased.           *)
C34_RandomizeOutcome ==
    probe.op = "randomize" =>
        \A i \in DOMAIN gridModel.grid :
            /\ gridModel.grid[i] \in {EMPTY, SPECIES_A, SPECIES_B, DISEASED}
            /\ gridModel.gAge[i] = 0
            /\ gridModel.yAge[i] = 0
            /\ ruleParams.density = 0 => gridModel.grid[i] = EMPTY
            /\ ruleParams.gdensity = 100 => gridModel.grid[i] \in {EMPTY, DISEASED}

(* After two edits and a generation a grid was randomized under            *)
(* gdensity = 1 and holds a Diseased cell beside an Empty one.             *)
C34_Witness ==
    /\ probe.op = "randomize"
    /\ ops >= 4
    /\ ruleParams.gdensity = 100
    /\ \E i \in DOMAIN gridModel.grid : gridModel.grid[i] = DISEASED
    /\ \E i \in DOMAIN gridModel.grid : gridModel.grid[i] = EMPTY

-----------------------------------------------------------------------------
(* Application.resize: the three size fields, parsed and clamped.          *)

MinDimension == 10
MaxDimension == 512
MinCellSize == 2
MaxCellSize == 20

(* A JavaScript number that is either NaN or an integer. *)
NaNValue == [nan |-> TRUE, value |-> 0]

Number(n) == [nan |-> FALSE, value |-> n]

(* Math.min and Math.max return NaN as soon as one argument is NaN. *)
MathMin(a, b) == IF a.nan \/ b.nan THEN NaNValue ELSE Number(Min(a.value, b.value))

MathMax(a, b) == IF a.nan \/ b.nan THEN NaNValue ELSE Number(Max(a.value, b.value))

(* v | 0 for NaN and for integers of at most 32 bits. *)
ToInt32(v) == IF v.nan THEN 0 ELSE v.value

(* What parseInt(field.value, 10) returns: NaN for empty or non-numeric    *)
(* text, otherwise the integer the text starts with.                       *)
ParsedDimensions ==
    {NaNValue} \cup { Number(n) : n \in {-1, MinDimension - 1, MinDimension, MinDimension + 1,
                                          MaxDimension, MaxDimension + 1} }

ParsedCellSizes ==
    {NaNValue} \cup { Number(n) : n \in {MinCellSize - 1, MinCellSize, MaxCellSize,
                                          MaxCellSize + 1} }

(* The field triples tried: at most one of columns and rows is large. *)
ResizeInputs ==
    LET small(v) == v.nan \/ v.value <= MinDimension + 1
    IN  { t \in ParsedDimensions \X ParsedDimensions \X ParsedCellSizes :
             small(t[1]) \/ small(t[2]) }

ClampDimension(parsed) == MathMax(Number(MinDimension), MathMin(Number(MaxDimension), parsed))

ClampCellSize(parsed) == MathMax(Number(MinCellSize), MathMin(Number(MaxCellSize), parsed))

InitResize ==
    /\ \E dims \in DimChoices : gridModel = NewGridModel(dims[1], dims[2])
    /\ \E cellSize \in {MinCellSize, MaxCellSize} :
          probe = [op |-> "constructor", cellSize |-> cellSize]
    /\ ruleParams \in ParamChoices
    /\ ops = 0
    /\ twin = None
    /\ pass = None
    /\ buffers = None

(* A corner of the grid is painted. *)
ResizeSetCell ==
    /\ ops < MaxEdits
    /\ \E x \in {0, gridModel.columns - 1} \cap Indices(gridModel.columns),
          y \in {0, gridModel.rows - 1} \cap Indices(gridModel.rows) :
          gridModel' = SetCell(gridModel, x, y, DISEASED)
    /\ probe' = [probe EXCEPT !.op = "setCell"]
    /\ ops' = ops + 1
    /\ UNCHANGED <<ruleParams, twin, pass, buffers>>

ApplicationResize ==
    /\ ops < MaxOps
    /\ \E t \in ResizeInputs :
          LET columns == ClampDimension(t[1])
              rows == ClampDimension(t[2])
              cellSize == ClampCellSize(t[3])
          IN  /\ gridModel' = Resize(gridModel, ToInt32(columns), ToInt32(rows), FALSE)
              /\ probe' = [op |-> "resize", cellSize |-> ToInt32(cellSize)]
    /\ ops' = ops + 1
    /\ UNCHANGED <<ruleParams, twin, pass, buffers>>

NextResize == ResizeSetCell \/ ApplicationResize

SpecResize == InitResize /\ [][NextResize]_vars

(* C35: after Application.resize(), whatever parsing the three fields      *)
(* produced (NaN included), 10 <= columns <= 512, 10 <= rows <= 512,       *)
(* 2 <= cellSize <= 20, and every cell is Empty with both ages 0.          *)
C35_ResizeClamps ==
    probe.op = "resize" =>
        /\ gridModel.columns \in MinDimension .. MaxDimension
        /\ gridModel.rows \in MinDimension .. MaxDimension
        /\ probe.cellSize \in MinCellSize .. MaxCellSize
        /\ DOMAIN gridModel.grid = Indices(gridModel.columns * gridModel.rows)
        /\ \A i \in DOMAIN gridModel.grid :
              gridModel.grid[i] = EMPTY /\ gridModel.gAge[i] = 0 /\ gridModel.yAge[i] = 0

-----------------------------------------------------------------------------
(* Application.seedInitialPattern, called by the constructor on grids of   *)
(* the sizes resize() accepts.                                             *)

SeedColumns == { MinDimension + k : k \in {0, 5, 6, 10, 11} }

SeedRows == { MinDimension, MinDimension + 1 }

(* redPattern and bluePattern. *)
ClusterPattern == << <<0, 0>>, <<1, 0>>, <<2, 0>>, <<0, 1>>, <<1, 2>> >>

(* The setCell calls of seedInitialPattern, in order, as <<x, y, value>>. *)
SeedCalls(gm) ==
    LET cx == gm.columns \div 2
        cy == gm.rows \div 2
        red == [n \in 1 .. Len(ClusterPattern) |->
                  <<cx - 8 + ClusterPattern[n][1], cy + ClusterPattern[n][2], SPECIES_A>>]
        blue == [n \in 1 .. Len(ClusterPattern) |->
                   <<cx + 8 + ClusterPattern[n][1], cy + ClusterPattern[n][2], SPECIES_B>>]
        border == [n \in 1 .. 7 |-> <<cx + (n - 4), cy, CONTESTED>>]
        disease == [n \in 1 .. 6 |->
                      <<Wrap(cx - 3 + (n - 1), gm.columns), Wrap(cy - 6, gm.rows), DISEASED>>]
    IN  red \o blue \o border \o disease

RECURSIVE ApplyCalls(_, _)
ApplyCalls(gm, calls) ==
    IF calls = << >> THEN gm
    ELSE ApplyCalls(SetCell(gm, Head(calls)[1], Head(calls)[2], Head(calls)[3]), Tail(calls))

SeedInitialPattern(gm) == ApplyCalls(gm, SeedCalls(gm))

InitSeed ==
    /\ \E columns \in SeedColumns, rows \in SeedRows : gridModel = NewGridModel(columns, rows)
    /\ probe = [op |-> "initializeComponents", calls |-> << >>]
    /\ ruleParams \in ParamChoices
    /\ ops = 0
    /\ twin = None
    /\ pass = None
    /\ buffers = None

(* The last statement of the constructor. *)
CallSeedInitialPattern ==
    /\ probe.op = "initializeComponents"
    /\ gridModel' = SeedInitialPattern(gridModel)
    /\ probe' = [op |-> "seedInitialPattern", calls |-> SeedCalls(gridModel)]
    /\ UNCHANGED <<ruleParams, ops, twin, pass, buffers>>

(* A corner of the seeded grid is painted. *)
SeedSetCell ==
    /\ probe.op # "initializeComponents"
    /\ ops < MaxEdits
    /\ \E x \in {0, gridModel.columns - 1}, y \in {0, gridModel.rows - 1},
          value \in States \ {EMPTY} :
          gridModel' = SetCell(gridModel, x, y, value)
    /\ probe' = [probe EXCEPT !.op = "setCell"]
    /\ ops' = ops + 1
    /\ UNCHANGED <<ruleParams, twin, pass, buffers>>

NextSeed == CallSeedInitialPattern \/ SeedSetCell

SpecSeed == InitSeed /\ [][NextSeed]_vars

(* C36: on every grid with columns >= 10 and rows >= 10, each setCell call *)
(* of seedInitialPattern has 0 <= x < columns and 0 <= y < rows, so its    *)
(* index lies inside the arrays and belongs to column x of row y.          *)
C36_SeedInsideGrid ==
    (gridModel.columns >= MinDimension /\ gridModel.rows >= MinDimension) =>
        \A n \in DOMAIN probe.calls :
            LET x == probe.calls[n][1]
                y == probe.calls[n][2]
                index == Idx(gridModel, x, y)
            IN  /\ x \in Indices(gridModel.columns)
                /\ y \in Indices(gridModel.rows)
                /\ index \in DOMAIN gridModel.grid
                /\ index % gridModel.columns = x
                /\ index \div gridModel.columns = y

-----------------------------------------------------------------------------
(* cycleState applied over and over to one value.                          *)

MaxCycles == 10

(* The enum, the bytes above it up to MaxValue, the largest byte, and      *)
(* undefined.                                                              *)
CycleInputs == States \cup (Cardinality(States) .. MaxValue) \cup {Uint8Modulus - 1, Undefined}

InitCycle ==
    /\ \E state \in CycleInputs :
          probe = [start |-> state, previous |-> state, value |-> state, count |-> 0]
    /\ gridModel = None
    /\ ruleParams = None
    /\ ops = 0
    /\ twin = None
    /\ pass = None
    /\ buffers = None

CallCycleState ==
    /\ probe.count < MaxCycles
    /\ probe' = [probe EXCEPT !.previous = probe.value,
                              !.value = CycleState(probe.value),
                              !.count = @ + 1]
    /\ UNCHANGED <<gridModel, ruleParams, ops, twin, pass, buffers>>

NextCycle == CallCycleState

SpecCycle == InitCycle /\ [][NextCycle]_vars

(* The order the claim names. *)
CycleOrder ==
    { <<EMPTY, SPECIES_A>>, <<SPECIES_A, SPECIES_B>>, <<SPECIES_B, CONTESTED>>,
      <<CONTESTED, DISEASED>>, <<DISEASED, EMPTY>> }

(* C37: cycleState is a 5-cycle in the order Empty -> SpeciesA -> SpeciesB *)
(* -> Contested -> Diseased -> Empty: from a valid state, five             *)
(* applications return it and fewer never do; a value outside the enum     *)
(* maps to Empty.                                                          *)
C37_FiveCycle ==
    /\ probe.count > 0 =>
          IF probe.previous \in States
          THEN <<probe.previous, probe.value>> \in CycleOrder
          ELSE probe.value = EMPTY
    /\ probe.start \in States =>
          (probe.value = probe.start <=> probe.count % 5 = 0)

(* Five applications have carried Diseased through Empty and back. *)
C37_Witness ==
    /\ probe.start = DISEASED
    /\ probe.count = 5
    /\ probe.previous = CONTESTED
    /\ probe.value = DISEASED

====
